---- MODULE Spec2Model ----
(***************************************************************************)
(* Model of the speech scoring engine of the Mirror repository:            *)
(*   src/analysis/pronunciation_analyzer.py  (PronunciationAnalyzer)       *)
(*   src/analysis/speech_analyzer.py         (SpeechAnalyzer)              *)
(*                                                                         *)
(* A Python str is a sequence of one-character strings.  A Python float    *)
(* is an exact rational [n, d] with d > 0; the value with d = 0 stands for *)
(* the ZeroDivisionError a division by zero raises, and it propagates      *)
(* through every later operation the way the exception propagates through  *)
(* the callers.  None is the string "None".                                *)
(***************************************************************************)
EXTENDS Integers, Sequences, FiniteSets, TLC

None == "None"

(***************************************************************************)
(* Characters.                                                             *)
(***************************************************************************)
Whitespace == {" "}
LowerLetters ==
    {"a", "b", "c", "d", "e", "f", "g", "h", "i", "j", "k", "l", "m",
     "n", "o", "p", "q", "r", "s", "t", "u", "v", "w", "x", "y", "z"}
UpperLetters == {"A", "C", "H", "T"}
WordChars == LowerLetters \cup UpperLetters \cup {"_"}
Punctuation == {".", "?", "!", ","}

\* str.lower() on one character
LowerChar(c) ==
    CASE c = "A" -> "a"
      [] c = "C" -> "c"
      [] c = "H" -> "h"
      [] c = "T" -> "t"
      [] OTHER -> c

\* str.lower()
Lower(s) == [i \in 1..Len(s) |-> LowerChar(s[i])]

RECURSIVE SplitFrom(_, _, _, _)
\* the scan of str.split(): cur is the word being read, acc the words read
SplitFrom(s, i, cur, acc) ==
    IF i > Len(s)
    THEN IF cur = <<>> THEN acc ELSE Append(acc, cur)
    ELSE IF s[i] \in Whitespace
         THEN SplitFrom(s, i + 1, <<>>, IF cur = <<>> THEN acc ELSE Append(acc, cur))
         ELSE SplitFrom(s, i + 1, Append(cur, s[i]), acc)

\* str.split() with no argument: the maximal runs of non-whitespace
Split(s) == SplitFrom(s, 1, <<>>, <<>>)

\* str.strip()
RECURSIVE LStrip(_)
LStrip(s) == IF s # <<>> /\ Head(s) \in Whitespace THEN LStrip(Tail(s)) ELSE s
RECURSIVE RStrip(_)
RStrip(s) ==
    IF s # <<>> /\ s[Len(s)] \in Whitespace THEN RStrip(SubSeq(s, 1, Len(s) - 1)) ELSE s
Strip(s) == RStrip(LStrip(s))

\* set(list)
ToSet(seq) == {seq[i] : i \in 1..Len(seq)}

\* sum(1 for x in seq if P(x))
CountIf(seq, P(_)) == Cardinality({i \in 1..Len(seq) : P(seq[i])})

MinInt(a, b) == IF a < b THEN a ELSE b
MaxInt(a, b) == IF a > b THEN a ELSE b

(***************************************************************************)
(* Python numbers as exact rationals.                                      *)
(***************************************************************************)
RECURSIVE Gcd(_, _)
Gcd(a, b) == IF b = 0 THEN a ELSE Gcd(b, a % b)
Abs(x) == IF x < 0 THEN -x ELSE x

\* the rational n/d in lowest terms; d = 0 is ZeroDivisionError
Rat(n, d) ==
    IF d = 0 THEN [n |-> 0, d |-> 0]
    ELSE LET g == Gcd(Abs(n), Abs(d))
             s == IF d < 0 THEN -1 ELSE 1
         IN [n |-> s * (n \div g), d |-> s * (d \div g)]

Num(k) == [n |-> k, d |-> 1]
ZeroDivisionError == [n |-> 0, d |-> 0]
Raised(x) == x.d = 0

RAdd(x, y) == Rat(x.n * y.d + y.n * x.d, x.d * y.d)
RSub(x, y) == Rat(x.n * y.d - y.n * x.d, x.d * y.d)
RMul(x, y) == Rat(x.n * y.n, x.d * y.d)
\* x / y, raising ZeroDivisionError when y is zero
RDiv(x, y) == IF Raised(x) \/ Raised(y) THEN ZeroDivisionError ELSE Rat(x.n * y.d, x.d * y.n)
RLt(x, y) == x.n * y.d < y.n * x.d
RLe(x, y) == x.n * y.d <= y.n * x.d
REq(x, y) == ~Raised(x) /\ ~Raised(y) /\ x.n * y.d = y.n * x.d
\* min(x, y) and max(x, y)
RMin(x, y) == IF Raised(x) THEN x ELSE IF Raised(y) THEN y ELSE IF RLe(x, y) THEN x ELSE y
RMax(x, y) == IF Raised(x) THEN x ELSE IF Raised(y) THEN y ELSE IF RLe(y, x) THEN x ELSE y

\* round(x, 2): the nearest hundredth, a tie going to the even one
Round2(x) ==
    IF Raised(x) THEN x
    ELSE LET m == 100 * x.n
             q == m \div x.d
             r == m - q * x.d
             up == (2 * r > x.d) \/ (2 * r = x.d /\ q % 2 = 1)
         IN Rat(IF up THEN q + 1 ELSE q, 100)

(***************************************************************************)
(* PronunciationAnalyzer: the similarity primitives.                       *)
(***************************************************************************)
\* _preprocess_word with the punctuation left in: only word.lower()
_preprocess_word_Lowered(word) == Lower(word)

\* re.sub(r'[^\w\s]', '', word.lower())
_preprocess_word(word) ==
    SelectSeq(Lower(word), LAMBDA c : c \in WordChars \cup Whitespace)

Min3(a, b, c) == MinInt(a, MinInt(b, c))

RECURSIVE EditRowCells_CaseBlind(_, _, _, _, _)
\* the inner loop with the characters compared after lower()
EditRowCells_CaseBlind(c1, s2, previous_row, current_row, j) ==
    IF j > Len(s2) THEN current_row
    ELSE LET insertions == previous_row[j + 1] + 1
             deletions == current_row[j] + 1
             substitutions ==
                 previous_row[j] + (IF LowerChar(c1) # LowerChar(s2[j]) THEN 1 ELSE 0)
         IN EditRowCells_CaseBlind(c1, s2, previous_row,
                         Append(current_row, Min3(insertions, deletions, substitutions)),
                         j + 1)

RECURSIVE EditRowCells(_, _, _, _, _)
\* the inner loop over s2 (line 190): current_row after cells j..len(s2)
EditRowCells(c1, s2, previous_row, current_row, j) ==
    IF j > Len(s2) THEN current_row
    ELSE LET insertions == previous_row[j + 1] + 1
             deletions == current_row[j] + 1
             substitutions == previous_row[j] + (IF c1 # s2[j] THEN 1 ELSE 0)
         IN EditRowCells(c1, s2, previous_row,
                         Append(current_row, Min3(insertions, deletions, substitutions)),
                         j + 1)

RECURSIVE EditRows(_, _, _, _)
\* the outer loop over s1 (line 188): previous_row after rows i..len(s1)
EditRows(s1, s2, previous_row, i) ==
    IF i > Len(s1) THEN previous_row
    ELSE EditRows(s1, s2, EditRowCells(s1[i], s2, previous_row, <<i>>, 1), i + 1)

\* the rows with the first one all zeros instead of range(len(s2) + 1)
EditDistanceOrdered_ZeroRow(s1, s2) ==
    IF Len(s2) = 0 THEN Len(s1)
    ELSE LET previous_row == [j \in 1..(Len(s2) + 1) |-> 0]
             last == EditRows(s1, s2, previous_row, 1)
         IN last[Len(last)]

\* the rows of the longer string against the shorter one
EditDistanceOrdered(s1, s2) ==
    IF Len(s2) = 0 THEN Len(s1)
    ELSE LET previous_row == [j \in 1..(Len(s2) + 1) |-> j - 1]
             last == EditRows(s1, s2, previous_row, 1)
         IN last[Len(last)]

_edit_distance(s1, s2) ==
    IF Len(s1) < Len(s2) THEN EditDistanceOrdered(s2, s1) ELSE EditDistanceOrdered(s1, s2)

\* _word_similarity with the distance divided by the shorter length
_word_similarity_MinLen(word1, word2) ==
    IF word1 = <<>> /\ word2 = <<>> THEN Num(1)
    ELSE IF word1 = <<>> \/ word2 = <<>> THEN Num(0)
    ELSE LET distance == _edit_distance(word1, word2)
             max_len == MinInt(Len(word1), Len(word2))
         IN IF max_len = 0 THEN Num(1)
            ELSE RSub(Num(1), RDiv(Num(distance), Num(max_len)))

_word_similarity(word1, word2) ==
    IF word1 = <<>> /\ word2 = <<>> THEN Num(1)
    ELSE IF word1 = <<>> \/ word2 = <<>> THEN Num(0)
    ELSE LET distance == _edit_distance(word1, word2)
             max_len == MaxInt(Len(word1), Len(word2))
         IN IF max_len = 0 THEN Num(1)
            ELSE RSub(Num(1), RDiv(Num(distance), Num(max_len)))

(***************************************************************************)
(* PronunciationAnalyzer: alignment.                                       *)
(***************************************************************************)
RECURSIVE Substitutions(_, _, _, _, _)
\* the loop over range(min_len) (line 208)
Substitutions(original_word, transcribed_word, min_len, i, errors) ==
    IF i >= min_len THEN errors
    ELSE LET orig_char == original_word[i + 1]
             trans_char == transcribed_word[i + 1]
         IN Substitutions(original_word, transcribed_word, min_len, i + 1,
                IF orig_char # trans_char
                THEN Append(errors, [position |-> i, expected |-> orig_char,
                                     actual |-> trans_char, type |-> "substitution"])
                ELSE errors)

\* lines 199-238 without the check for missing or extra characters (lines 220-236)
_detect_phoneme_errors_SubstitutionsOnly(original_word, transcribed_word) ==
    LET min_len == MinInt(Len(original_word), Len(transcribed_word))
    IN Substitutions(original_word, transcribed_word, min_len, 0, <<>>)

_detect_phoneme_errors(original_word, transcribed_word) ==
    LET min_len == MinInt(Len(original_word), Len(transcribed_word))
        errors == Substitutions(original_word, transcribed_word, min_len, 0, <<>>)
    IN IF Len(original_word) > Len(transcribed_word)
       THEN errors \o [k \in 1..(Len(original_word) - Len(transcribed_word)) |->
                [position |-> Len(transcribed_word) + k - 1,
                 expected |-> original_word[Len(transcribed_word) + k],
                 actual |-> None, type |-> "deletion"]]
       ELSE IF Len(transcribed_word) > Len(original_word)
       THEN errors \o [k \in 1..(Len(transcribed_word) - Len(original_word)) |->
                [position |-> Len(original_word) + k - 1,
                 expected |-> None,
                 actual |-> transcribed_word[Len(original_word) + k], type |-> "insertion"]]
       ELSE errors

\* the match threshold of lines 102 and 106
MatchThreshold == Rat(7, 10)

\* alignment_info as created at lines 82-87
NewAlignmentInfo ==
    [word_matches |-> <<>>, phoneme_errors |-> <<>>, accuracy_score |-> Num(0), details |-> <<>>]

\* one iteration of the loop of line 91 with the errors detected on the words
\* as split, not on the preprocessed words
AlignStep_RawWords(alignment_info, original_words, transcribed_words, i) ==
    LET orig_word == _preprocess_word(original_words[i + 1])
        trans_word == _preprocess_word(transcribed_words[i + 1])
        similarity == _word_similarity(orig_word, trans_word)
        matched == [alignment_info EXCEPT !.word_matches = Append(@,
                        [original |-> original_words[i + 1],
                         transcribed |-> transcribed_words[i + 1],
                         similarity |-> similarity,
                         match |-> RLt(MatchThreshold, similarity)])]
    IN IF RLe(similarity, MatchThreshold)
       THEN LET phoneme_errors ==
                    _detect_phoneme_errors(original_words[i + 1], transcribed_words[i + 1])
            IN [matched EXCEPT !.phoneme_errors = @ \o phoneme_errors,
                               !.details = Append(@,
                                    [position |-> i,
                                     original_word |-> original_words[i + 1],
                                     transcribed_word |-> transcribed_words[i + 1],
                                     errors |-> phoneme_errors])]
       ELSE matched

\* one iteration of the loop of line 91, for the 0-based position i
AlignStep(alignment_info, original_words, transcribed_words, i) ==
    LET orig_word == _preprocess_word(original_words[i + 1])
        trans_word == _preprocess_word(transcribed_words[i + 1])
        similarity == _word_similarity(orig_word, trans_word)
        matched == [alignment_info EXCEPT !.word_matches = Append(@,
                        [original |-> original_words[i + 1],
                         transcribed |-> transcribed_words[i + 1],
                         similarity |-> similarity,
                         match |-> RLt(MatchThreshold, similarity)])]
    IN IF RLe(similarity, MatchThreshold)
       THEN LET phoneme_errors == _detect_phoneme_errors(orig_word, trans_word)
            IN [matched EXCEPT !.phoneme_errors = @ \o phoneme_errors,
                               !.details = Append(@,
                                    [position |-> i,
                                     original_word |-> original_words[i + 1],
                                     transcribed_word |-> transcribed_words[i + 1],
                                     errors |-> phoneme_errors])]
       ELSE matched

RECURSIVE AlignLoop(_, _, _, _, _)
\* for i in range(min_len) (line 91)
AlignLoop(alignment_info, original_words, transcribed_words, min_len, i) ==
    IF i >= min_len THEN alignment_info
    ELSE AlignLoop(AlignStep(alignment_info, original_words, transcribed_words, i),
                   original_words, transcribed_words, min_len, i + 1)

\* lines 118-119 without the guard "if original_words else 0"
AlignAccuracy_Unguarded(alignment_info, original_words) ==
    LET correct_words == CountIf(alignment_info.word_matches, LAMBDA m : m.match)
    IN RDiv(Num(correct_words), Num(Len(original_words)))

\* lines 118-119 dividing by the number of aligned pairs, not of reference words
AlignAccuracy_OfAligned(alignment_info, original_words) ==
    LET correct_words == CountIf(alignment_info.word_matches, LAMBDA m : m.match)
    IN IF alignment_info.word_matches # <<>>
       THEN RDiv(Num(correct_words), Num(Len(alignment_info.word_matches)))
       ELSE Num(0)

\* lines 118-119: the share of the reference words that matched
AlignAccuracy(alignment_info, original_words) ==
    LET correct_words == CountIf(alignment_info.word_matches, LAMBDA m : m.match)
    IN IF original_words # <<>>
       THEN RDiv(Num(correct_words), Num(Len(original_words)))
       ELSE Num(0)

\* AlignInto with the accuracy taken over the transcript words, not over the
\* reference words
AlignInto_OverTranscript(alignment_info, transcription, original_text) ==
    LET transcribed_words == Split(Lower(transcription))
        original_words == Split(Lower(original_text))
        min_len == MinInt(Len(transcribed_words), Len(original_words))
        looped == AlignLoop(alignment_info, original_words, transcribed_words, min_len, 0)
    IN [looped EXCEPT !.accuracy_score = AlignAccuracy(looped, transcribed_words)]

\* the loop of line 91 run on the dictionary alignment_info, then lines 118-119
AlignInto(alignment_info, transcription, original_text) ==
    LET transcribed_words == Split(Lower(transcription))
        original_words == Split(Lower(original_text))
        min_len == MinInt(Len(transcribed_words), Len(original_words))
        looped == AlignLoop(alignment_info, original_words, transcribed_words, min_len, 0)
    IN [looped EXCEPT !.accuracy_score = AlignAccuracy(looped, original_words)]

phoneme_align(transcription, original_text) ==
    AlignInto(NewAlignmentInfo, transcription, original_text)

(***************************************************************************)
(* PronunciationAnalyzer: the comprehensive scores and the report.         *)
(***************************************************************************)
_calculate_clarity_score(transcription, original_text) ==
    LET transcribed_words == ToSet(Split(Lower(transcription)))
        original_words == ToSet(Split(Lower(original_text)))
        intersection == Cardinality(transcribed_words \cap original_words)
        union == Cardinality(transcribed_words \cup original_words)
        transcribed_list == Split(Lower(transcription))
        original_list == Split(Lower(original_text))
        positional_matches ==
            Cardinality({i \in 1..MinInt(Len(transcribed_list), Len(original_list)) :
                            transcribed_list[i] = original_list[i]})
        positional_score ==
            IF original_list # <<>>
            THEN RDiv(Num(positional_matches), Num(Len(original_list)))
            ELSE Num(0)
        clarity_score ==
            RAdd(RMul(RDiv(Num(intersection), Num(Cardinality(original_words))), Rat(6, 10)),
                 RMul(positional_score, Rat(4, 10)))
    IN IF original_words = {} THEN Num(0)
       ELSE IF union = 0 THEN Num(0)
       ELSE RMin(Num(10), RMul(clarity_score, Num(10)))

\* the filler list of line 289
ReportFillers ==
    { <<"u", "m">>, <<"u", "h">>, <<"e", "r">>, <<"l", "i", "k", "e">>, <<"s", "o">>,
      <<"w", "e", "l", "l">>, <<"y", "o", "u", " ", "k", "n", "o", "w">>,
      <<"a", "c", "t", "u", "a", "l", "l", "y">>,
      <<"b", "a", "s", "i", "c", "a", "l", "l", "y">> }

\* _calculate_fluency_score without the caps of lines 294-295 on the penalties
_calculate_fluency_score_Uncapped(transcription) ==
    LET words == Split(transcription)
        unique_words == ToSet(words)
        repetition_ratio ==
            RSub(Num(1), RDiv(Num(Cardinality(unique_words)), Num(Len(words))))
        filler_count == CountIf(words, LAMBDA word : Lower(word) \in ReportFillers)
        filler_ratio == RDiv(Num(filler_count), Num(Len(words)))
        repetition_penalty == RMul(repetition_ratio, Num(10))
        filler_penalty == RMul(filler_ratio, Num(8))
    IN IF words = <<>> THEN Num(0)
       ELSE RMax(Num(0), RSub(RSub(Num(10), repetition_penalty), filler_penalty))

_calculate_fluency_score(transcription) ==
    LET words == Split(transcription)
        unique_words == ToSet(words)
        repetition_ratio ==
            RSub(Num(1), RDiv(Num(Cardinality(unique_words)), Num(Len(words))))
        filler_count == CountIf(words, LAMBDA word : Lower(word) \in ReportFillers)
        filler_ratio == RDiv(Num(filler_count), Num(Len(words)))
        repetition_penalty == RMin(Num(3), RMul(repetition_ratio, Num(10)))
        filler_penalty == RMin(Num(2), RMul(filler_ratio, Num(8)))
    IN IF words = <<>> THEN Num(0)
       ELSE RMax(Num(0), RSub(RSub(Num(10), repetition_penalty), filler_penalty))

\* lines 135-146 with the accuracy left on its 0..1 scale (no "* 10")
ScoringWith_Unscaled(transcription, original_text, alignment_info) ==
    LET clarity_score == _calculate_clarity_score(transcription, original_text)
        fluency_score == _calculate_fluency_score(transcription)
        accuracy_score == alignment_info.accuracy_score
    IN [overall |-> Round2(RAdd(RAdd(RMul(clarity_score, Rat(4, 10)),
                                     RMul(fluency_score, Rat(3, 10))),
                                RMul(accuracy_score, Rat(3, 10)))),
        clarity |-> Round2(clarity_score),
        fluency |-> Round2(fluency_score),
        accuracy |-> Round2(accuracy_score),
        alignment_details |-> alignment_info]

\* lines 135-146 with the overall score blended from the rounded components
ScoringWith_RoundedParts(transcription, original_text, alignment_info) ==
    LET clarity_score == Round2(_calculate_clarity_score(transcription, original_text))
        fluency_score == Round2(_calculate_fluency_score(transcription))
        accuracy_score == Round2(RMul(alignment_info.accuracy_score, Num(10)))
    IN [overall |-> Round2(RAdd(RAdd(RMul(clarity_score, Rat(4, 10)),
                                     RMul(fluency_score, Rat(3, 10))),
                                RMul(accuracy_score, Rat(3, 10)))),
        clarity |-> clarity_score,
        fluency |-> fluency_score,
        accuracy |-> accuracy_score,
        alignment_details |-> alignment_info]

\* lines 135-146, alignment_info given
ScoringWith(transcription, original_text, alignment_info) ==
    LET clarity_score == _calculate_clarity_score(transcription, original_text)
        fluency_score == _calculate_fluency_score(transcription)
        accuracy_score == RMul(alignment_info.accuracy_score, Num(10))
    IN [overall |-> Round2(RAdd(RAdd(RMul(clarity_score, Rat(4, 10)),
                                     RMul(fluency_score, Rat(3, 10))),
                                RMul(accuracy_score, Rat(3, 10)))),
        clarity |-> Round2(clarity_score),
        fluency |-> Round2(fluency_score),
        accuracy |-> Round2(accuracy_score),
        alignment_details |-> alignment_info]

\* pronunciation_scoring(transcription, original_text) with alignment_info=None
pronunciation_scoring(transcription, original_text) ==
    ScoringWith(transcription, original_text, phoneme_align(transcription, original_text))

\* the threshold of lines 328, 331 and 334
RecommendBelow == Num(6)

\* lines 322-343 with the closing message added whenever there is no phoneme
\* error, not only when nothing else was recommended
_generate_recommendations_PraiseWithoutErrors(scoring, alignment_info) ==
    LET r1 == IF RLt(scoring.clarity, RecommendBelow)
              THEN << <<"Focus on clearer pronunciation of individual words.">> >>
              ELSE <<>>
        r2 == IF RLt(scoring.fluency, RecommendBelow)
              THEN Append(r1, <<"Work on reducing fillers and speech hesitations.">>)
              ELSE r1
        r3 == IF RLt(scoring.accuracy, RecommendBelow)
              THEN Append(r2, <<"Practice matching the original text more closely.">>)
              ELSE r2
    IN IF alignment_info.phoneme_errors # <<>>
       THEN Append(r3, <<"Address ", Len(alignment_info.phoneme_errors),
                         " phoneme-level errors detected.">>)
       ELSE Append(r3, <<"Pronunciation looks good! Keep practicing to maintain your skills.">>)

_generate_recommendations(scoring, alignment_info) ==
    LET r1 == IF RLt(scoring.clarity, RecommendBelow)
              THEN << <<"Focus on clearer pronunciation of individual words.">> >>
              ELSE <<>>
        r2 == IF RLt(scoring.fluency, RecommendBelow)
              THEN Append(r1, <<"Work on reducing fillers and speech hesitations.">>)
              ELSE r1
        r3 == IF RLt(scoring.accuracy, RecommendBelow)
              THEN Append(r2, <<"Practice matching the original text more closely.">>)
              ELSE r2
        r4 == IF alignment_info.phoneme_errors # <<>>
              THEN Append(r3, <<"Address ", Len(alignment_info.phoneme_errors),
                                " phoneme-level errors detected.">>)
              ELSE r3
    IN IF r4 = <<>>
       THEN << <<"Pronunciation looks good! Keep practicing to maintain your skills.">> >>
       ELSE r4

\* lines 307-320, alignment_info given
ReportWith(transcription, original_text, alignment_info) ==
    LET scoring == ScoringWith(transcription, original_text, alignment_info)
    IN [summary |-> [overall_score |-> scoring.overall,
                     clarity_score |-> scoring.clarity,
                     fluency_score |-> scoring.fluency,
                     accuracy_score |-> scoring.accuracy],
        alignment_details |-> alignment_info,
        recommendations |-> _generate_recommendations(scoring, alignment_info)]

generate_pronunciation_report(transcription, original_text) ==
    ReportWith(transcription, original_text, phoneme_align(transcription, original_text))

(***************************************************************************)
(* difflib.SequenceMatcher(None, a, b).ratio(), as called by SpeechAnalyzer *)
(* (no junk; the automatic junk heuristic needs 200 characters or more).   *)
(* Positions are 0-based and ranges half-open, as in Python.               *)
(***************************************************************************)
RECURSIVE RunLen(_, _, _, _, _, _)
\* the length of the common run of a[i:ahi] and b[j:bhi]
RunLen(a, b, i, j, ahi, bhi) ==
    IF i < ahi /\ j < bhi /\ a[i + 1] = b[j + 1]
    THEN 1 + RunLen(a, b, i + 1, j + 1, ahi, bhi)
    ELSE 0

\* the largest and the smallest element of a non-empty set of integers
MaxOf(S) == CHOOSE x \in S : \A y \in S : y <= x
MinOf(S) == CHOOSE x \in S : \A y \in S : x <= y

\* find_longest_match: of the longest common blocks of a[alo:ahi] and b[blo:bhi]
\* the one that starts earliest in a, and of those the one that starts
\* earliest in b; k = 0 when there is no common character
find_longest_match(a, b, alo, ahi, blo, bhi) ==
    LET starts == (alo..(ahi - 1)) \X (blo..(bhi - 1))
        runs == [p \in starts |-> RunLen(a, b, p[1], p[2], ahi, bhi)]
        bestsize == MaxOf({runs[p] : p \in starts} \cup {0})
        besti == MinOf({p[1] : p \in {q \in starts : runs[q] = bestsize}})
        bestj == MinOf({p[2] : p \in {q \in starts : q[1] = besti /\ runs[q] = bestsize}})
    IN IF bestsize = 0 THEN [i |-> alo, j |-> blo, k |-> 0]
       ELSE [i |-> besti, j |-> bestj, k |-> bestsize]

RECURSIVE MatchedChars(_, _, _, _, _, _)
\* the total size of get_matching_blocks() within a[alo:ahi], b[blo:bhi]
MatchedChars(a, b, alo, ahi, blo, bhi) ==
    LET m == find_longest_match(a, b, alo, ahi, blo, bhi)
    IN IF m.k = 0 THEN 0
       ELSE m.k
            + (IF alo < m.i /\ blo < m.j
               THEN MatchedChars(a, b, alo, m.i, blo, m.j) ELSE 0)
            + (IF m.i + m.k < ahi /\ m.j + m.k < bhi
               THEN MatchedChars(a, b, m.i + m.k, ahi, m.j + m.k, bhi) ELSE 0)

\* SequenceMatcher(None, a, b).ratio()
SequenceRatio(a, b) ==
    LET matches == MatchedChars(a, b, 0, Len(a), 0, Len(b))
        length == Len(a) + Len(b)
    IN IF length # 0 THEN Rat(2 * matches, length) ELSE Num(1)

(***************************************************************************)
(* SpeechAnalyzer.                                                         *)
(***************************************************************************)
\* an absent str argument (original_prompt=None)
NoneStr == <<None>>

\* the truth value of a str-or-None argument
Truthy(s) == s # NoneStr /\ s # <<>>

SentenceEnd == {".", "!", "?"}

RECURSIVE ReSplitFrom(_, _, _, _)
\* re.split(r'[.!?]+', text): the pieces between the runs of terminators
ReSplitFrom(s, i, cur, acc) ==
    IF i > Len(s) THEN Append(acc, cur)
    ELSE IF s[i] \in SentenceEnd
         THEN IF i > 1 /\ s[i - 1] \in SentenceEnd
              THEN ReSplitFrom(s, i + 1, cur, acc)
              ELSE ReSplitFrom(s, i + 1, <<>>, Append(acc, cur))
         ELSE ReSplitFrom(s, i + 1, Append(cur, s[i]), acc)

\* [s.strip() for s in re.split(r'[.!?]+', text) if s.strip()]
Sentences(text) ==
    LET pieces == ReSplitFrom(text, 1, <<>>, <<>>)
        stripped == [i \in 1..Len(pieces) |-> Strip(pieces[i])]
    IN SelectSeq(stripped, LAMBDA s : s # <<>>)

RECURSIVE SumSeq(_)
SumSeq(seq) == IF seq = <<>> THEN 0 ELSE Head(seq) + SumSeq(Tail(seq))

\* the word counts of the sentences that have words (lines 289-293, 451-455)
WordCounts(sentences) ==
    LET counts == [i \in 1..Len(sentences) |-> Len(Split(sentences[i]))]
    IN SelectSeq(counts, LAMBDA c : c > 0)

\* attempt_ratio (lines 274-276, 379-381, 428-430, 485-487)
AttemptRatio(text, original_prompt) ==
    LET original_word_count == Len(Split(original_prompt))
        transcription_word_count == Len(Split(text))
    IN IF original_word_count > 0
       THEN RMin(Num(1), RDiv(Num(transcription_word_count), Num(original_word_count)))
       ELSE Num(1)

\* similarity (lines 271, 376, 425, 482)
Similarity(text, original_prompt) == SequenceRatio(Lower(original_prompt), Lower(text))

\* the test with "attempt_ratio >= 0.5 and similarity >= 0.4"
ReasonableAttempt_Inclusive(attempt_ratio, similarity) ==
    RLe(Rat(5, 10), attempt_ratio) /\ RLe(Rat(4, 10), similarity)

\* "if attempt_ratio > 0.5 and similarity > 0.4" (lines 283, 388, 494)
ReasonableAttempt(attempt_ratio, similarity) ==
    RLt(Rat(5, 10), attempt_ratio) /\ RLt(Rat(4, 10), similarity)

\* filler_words (line 98)
FluencyFillers ==
    { <<"u", "m">>,
      <<"u", "h">>,
      <<"e", "r">>,
      <<"l", "i", "k", "e">>,
      <<"s", "o">>,
      <<"w", "e", "l", "l">>,
      <<"y", "o", "u", " ", "k", "n", "o", "w">>,
      <<"a", "c", "t", "u", "a", "l", "l", "y">>,
      <<"b", "a", "s", "i", "c", "a", "l", "l", "y">>,
      <<"l", "i", "t", "e", "r", "a", "l", "l", "y">>,
      <<"r", "i", "g", "h", "t">>,
      <<"o", "k", "a", "y">>,
      <<"k", "i", "n", "d", " ", "o", "f">> }

\* _analyze_fluency without the reduction of lines 116-117 for short speeches
_analyze_fluency_NoShort(text) ==
    LET words == Split(Lower(text))
        repeated_word_count ==
            Cardinality({i \in 1..(Len(words) - 1) : words[i] = words[i + 1]})
        filler_count == CountIf(words, LAMBDA word : word \in FluencyFillers)
        total_words == Len(words)
        repetition_ratio == RDiv(Num(repeated_word_count), Num(total_words))
        filler_ratio == RDiv(Num(filler_count), Num(total_words))
        repetition_penalty == RMul(repetition_ratio, Num(20))
        filler_penalty == RMul(filler_ratio, Num(15))
        fluency_score ==
            RMax(Num(0), RSub(RSub(Num(10), repetition_penalty), filler_penalty))
    IN IF Len(words) = 0 THEN Num(0)
       ELSE Round2(fluency_score)

_analyze_fluency(text) ==
    LET words == Split(Lower(text))
        repeated_word_count ==
            Cardinality({i \in 1..(Len(words) - 1) : words[i] = words[i + 1]})
        filler_count == CountIf(words, LAMBDA word : word \in FluencyFillers)
        total_words == Len(words)
        repetition_ratio == RDiv(Num(repeated_word_count), Num(total_words))
        filler_ratio == RDiv(Num(filler_count), Num(total_words))
        repetition_penalty == RMul(repetition_ratio, Num(20))
        filler_penalty == RMul(filler_ratio, Num(15))
        fluency_score ==
            RMax(Num(0), RSub(RSub(Num(10), repetition_penalty), filler_penalty))
    IN IF Len(words) = 0 THEN Num(0)
       ELSE Round2(IF total_words < 5 THEN RMul(fluency_score, Rat(7, 10))
                   ELSE fluency_score)

_analyze_clarity(text, original_prompt) ==
    LET sentences == Sentences(text)
    IN IF sentences = <<>> THEN Num(0)
       ELSE IF Truthy(original_prompt)
       THEN LET similarity == Similarity(text, original_prompt)
                attempt_ratio == AttemptRatio(text, original_prompt)
                clarity_score ==
                    RMul(RAdd(RMul(similarity, Rat(7, 10)), RMul(attempt_ratio, Rat(3, 10))),
                         Num(10))
            IN Round2(IF ReasonableAttempt(attempt_ratio, similarity)
                      THEN RMax(clarity_score, Num(5)) ELSE clarity_score)
       ELSE LET word_counts == WordCounts(sentences)
                avg_length == RDiv(Num(SumSeq(word_counts)), Num(Len(word_counts)))
                based ==
                    IF RLe(Num(8), avg_length) /\ RLe(avg_length, Num(15)) THEN Num(8)
                    ELSE IF RLt(avg_length, Num(8))
                    THEN RMax(Num(0), RSub(Num(8), RSub(Num(8), avg_length)))
                    ELSE RMax(Num(0),
                              RSub(Num(8), RMul(RSub(avg_length, Num(15)), Rat(5, 10))))
                clarity_score ==
                    IF Len(sentences) >= 2 THEN RMin(Num(10), RAdd(based, Rat(15, 10)))
                    ELSE IF Len(sentences) = 1 THEN RMax(Num(0), RSub(based, Num(1)))
                    ELSE based
            IN IF word_counts = <<>> THEN Num(0) ELSE Round2(clarity_score)

\* line 396
UnclearIndicators ==
    { <<"u", "h">>, <<"u", "m">>, <<"a", "h">>, <<"e", "r">>, <<"h", "m">>, <<"h", "m", "m">> }

\* the short words line 404 does not count
CommonShortWords ==
    { <<"i">>, <<"a">>, <<"t", "o">>, <<"o", "f">>, <<"i", "n">>,
      <<"o", "n">>, <<"a", "t">>, <<"o", "r">>, <<"b", "e">>, <<"a", "n">> }

\* _analyze_articulation without the max(0, ...) of line 408
_analyze_articulation_Unclamped(text, original_prompt) ==
    LET words == Split(text)
    IN IF words = <<>> THEN Num(0)
       ELSE IF Truthy(original_prompt)
       THEN LET similarity == Similarity(text, original_prompt)
                attempt_ratio == AttemptRatio(text, original_prompt)
                articulation_score ==
                    RMul(RAdd(RMul(similarity, Rat(8, 10)), RMul(attempt_ratio, Rat(2, 10))),
                         Num(10))
            IN Round2(IF ReasonableAttempt(attempt_ratio, similarity)
                      THEN RMax(articulation_score, Num(5)) ELSE articulation_score)
       ELSE LET unclear_count == CountIf(words, LAMBDA word : Lower(word) \in UnclearIndicators)
                unclear_ratio == RDiv(Num(unclear_count), Num(Len(words)))
                short_word_count ==
                    CountIf(words, LAMBDA word :
                        Len(word) <= 2 /\ Lower(word) \notin CommonShortWords)
                short_word_ratio == RDiv(Num(short_word_count), Num(Len(words)))
            IN Round2(RSub(RSub(Num(10), RMul(unclear_ratio, Num(30))),
                           RMul(short_word_ratio, Num(5))))

_analyze_articulation(text, original_prompt) ==
    LET words == Split(text)
    IN IF words = <<>> THEN Num(0)
       ELSE IF Truthy(original_prompt)
       THEN LET similarity == Similarity(text, original_prompt)
                attempt_ratio == AttemptRatio(text, original_prompt)
                articulation_score ==
                    RMul(RAdd(RMul(similarity, Rat(8, 10)), RMul(attempt_ratio, Rat(2, 10))),
                         Num(10))
            IN Round2(IF ReasonableAttempt(attempt_ratio, similarity)
                      THEN RMax(articulation_score, Num(5)) ELSE articulation_score)
       ELSE LET unclear_count == CountIf(words, LAMBDA word : Lower(word) \in UnclearIndicators)
                unclear_ratio == RDiv(Num(unclear_count), Num(Len(words)))
                short_word_count ==
                    CountIf(words, LAMBDA word :
                        Len(word) <= 2 /\ Lower(word) \notin CommonShortWords)
                short_word_ratio == RDiv(Num(short_word_count), Num(Len(words)))
            IN Round2(RMax(Num(0),
                           RSub(RSub(Num(10), RMul(unclear_ratio, Num(30))),
                                RMul(short_word_ratio, Num(5)))))

RECURSIVE IsqrtFrom(_, _)
IsqrtFrom(y, r) == IF (r + 1) * (r + 1) > y THEN r ELSE IsqrtFrom(y, r + 1)
\* the integer part of the square root of y
Isqrt(y) == IsqrtFrom(y, 0)

\* round(max(0, 7 - np.std(word_counts) * 0.3), 2) (lines 462-468), computed
\* from the variance: with u the integer part of 60 * std, the score in
\* hundredths is the hundredth nearest to 700 - 30 * std
PaceFromCounts(word_counts) ==
    LET n == Len(word_counts)
        total == SumSeq(word_counts)
        squares == SumSeq([i \in 1..n |-> word_counts[i] * word_counts[i]])
        \* variance = (n * squares - total^2) / n^2, so (60 * std)^2 = 3600 * that
        scaled == 3600 * (n * squares - total * total)
        u == IF n > 1 THEN Isqrt(scaled \div (n * n)) ELSE 0
        tie == n > 1 /\ u * u * n * n = scaled
        down == (u + 1) \div 2
        hundredths ==
            IF u % 2 = 0 THEN 700 - (u \div 2)
            ELSE IF tie /\ (700 - down) % 2 = 1 THEN 700 - down + 1
            ELSE 700 - down
    IN Rat(MaxInt(0, hundredths), 100)

\* _analyze_pace without the minimum of lines 436-437
_analyze_pace_Unfloored(text, original_prompt) ==
    IF Truthy(original_prompt)
    THEN LET similarity == Similarity(text, original_prompt)
             attempt_ratio == AttemptRatio(text, original_prompt)
             pace_score ==
                 RMul(RAdd(RMul(attempt_ratio, Rat(6, 10)), RMul(similarity, Rat(4, 10))),
                      Num(10))
         IN Round2(pace_score)
    ELSE LET sentences == Sentences(text)
             word_counts == WordCounts(sentences)
         IN IF sentences = <<>> THEN Num(0)
            ELSE IF word_counts = <<>> THEN Num(0)
            ELSE PaceFromCounts(word_counts)

_analyze_pace(text, original_prompt) ==
    IF Truthy(original_prompt)
    THEN LET similarity == Similarity(text, original_prompt)
             attempt_ratio == AttemptRatio(text, original_prompt)
             pace_score ==
                 RMul(RAdd(RMul(attempt_ratio, Rat(6, 10)), RMul(similarity, Rat(4, 10))),
                      Num(10))
         IN Round2(IF RLt(Rat(3, 10), attempt_ratio)
                   THEN RMax(pace_score, Num(4)) ELSE pace_score)
    ELSE LET sentences == Sentences(text)
             word_counts == WordCounts(sentences)
         IN IF sentences = <<>> THEN Num(0)
            ELSE IF word_counts = <<>> THEN Num(0)
            ELSE PaceFromCounts(word_counts)

\* _estimate_pronunciation without the cap of line 509 at 9
_estimate_pronunciation_Uncapped(text, original_prompt) ==
    LET words == Split(text)
    IN IF Truthy(original_prompt)
       THEN LET similarity == Similarity(text, original_prompt)
                attempt_ratio == AttemptRatio(text, original_prompt)
                pronunciation_score ==
                    RMul(RAdd(RMul(similarity, Rat(7, 10)), RMul(attempt_ratio, Rat(3, 10))),
                         Num(10))
            IN Round2(RMin(Num(10),
                           IF ReasonableAttempt(attempt_ratio, similarity)
                           THEN RMax(pronunciation_score, Num(5)) ELSE pronunciation_score))
       ELSE IF Len(words) < 3 THEN Num(2)
       ELSE IF Len(words) < 5 THEN Num(4)
       ELSE IF Len(words) < 10 THEN Num(6)
       ELSE RAdd(Num(6), RMul(Num(Len(words) - 10), Rat(3, 10)))

_estimate_pronunciation(text, original_prompt) ==
    LET words == Split(text)
    IN IF Truthy(original_prompt)
       THEN LET similarity == Similarity(text, original_prompt)
                attempt_ratio == AttemptRatio(text, original_prompt)
                pronunciation_score ==
                    RMul(RAdd(RMul(similarity, Rat(7, 10)), RMul(attempt_ratio, Rat(3, 10))),
                         Num(10))
            IN Round2(RMin(Num(10),
                           IF ReasonableAttempt(attempt_ratio, similarity)
                           THEN RMax(pronunciation_score, Num(5)) ELSE pronunciation_score))
       ELSE IF Len(words) < 3 THEN Num(2)
       ELSE IF Len(words) < 5 THEN Num(4)
       ELSE IF Len(words) < 10 THEN Num(6)
       ELSE RMin(Num(9), RAdd(Num(6), RMul(Num(Len(words) - 10), Rat(3, 10))))

\* emotion_keywords (lines 132-163), in the order of the dictionary
EmotionLabels == <<"joy", "sadness", "anger", "fear", "surprise", "disgust">>

EmotionKeywords ==
    [joy |-> <<
        <<"h", "a", "p", "p", "y">>, <<"e", "x", "c", "i", "t", "e", "d">>,
        <<"w", "o", "n", "d", "e", "r", "f", "u", "l">>, <<"a", "m", "a", "z", "i", "n", "g">>,
        <<"f", "a", "n", "t", "a", "s", "t", "i", "c">>, <<"g", "r", "e", "a", "t">>,
        <<"l", "o", "v", "e">>, <<"p", "l", "e", "a", "s", "e", "d">>,
        <<"d", "e", "l", "i", "g", "h", "t", "e", "d">>,
        <<"t", "h", "r", "i", "l", "l", "e", "d">>, <<"g", "l", "a", "d">>,
        <<"c", "h", "e", "e", "r", "f", "u", "l">>, <<"j", "o", "y">>,
        <<"c", "e", "l", "e", "b", "r", "a", "t", "e">>, <<"s", "u", "c", "c", "e", "s", "s">>,
        <<"p", "e", "r", "f", "e", "c", "t">>, <<"a", "w", "e", "s", "o", "m", "e">>,
        <<"b", "r", "i", "l", "l", "i", "a", "n", "t">> >>,
     sadness |-> <<
        <<"s", "a", "d">>, <<"u", "n", "h", "a", "p", "p", "y">>,
        <<"d", "e", "p", "r", "e", "s", "s", "e", "d">>,
        <<"t", "e", "r", "r", "i", "b", "l", "e">>, <<"a", "w", "f", "u", "l">>,
        <<"h", "o", "r", "r", "i", "b", "l", "e">>,
        <<"d", "i", "s", "a", "p", "p", "o", "i", "n", "t", "e", "d">>,
        <<"f", "r", "u", "s", "t", "r", "a", "t", "e", "d">>, <<"r", "e", "g", "r", "e", "t">>,
        <<"s", "o", "r", "r", "y">>, <<"m", "i", "s", "e", "r", "a", "b", "l", "e">>,
        <<"h", "e", "a", "r", "t", "b", "r", "o", "k", "e", "n">>,
        <<"l", "o", "n", "e", "l", "y">>, <<"g", "l", "o", "o", "m", "y">>,
        <<"p", "e", "s", "s", "i", "m", "i", "s", "t", "i", "c">>,
        <<"t", "r", "a", "g", "i", "c">> >>,
     anger |-> <<
        <<"a", "n", "g", "r", "y">>, <<"m", "a", "d">>, <<"f", "u", "r", "i", "o", "u", "s">>,
        <<"a", "n", "n", "o", "y", "e", "d">>, <<"i", "r", "r", "i", "t", "a", "t", "e", "d">>,
        <<"f", "r", "u", "s", "t", "r", "a", "t", "e", "d">>, <<"h", "a", "t", "e">>,
        <<"d", "i", "s", "g", "u", "s", "t", "e", "d">>, <<"r", "a", "g", "e">>,
        <<"h", "o", "s", "t", "i", "l", "e">>,
        <<"a", "g", "g", "r", "e", "s", "s", "i", "v", "e">>,
        <<"o", "f", "f", "e", "n", "d", "e", "d">>,
        <<"r", "e", "s", "e", "n", "t", "m", "e", "n", "t">>, <<"b", "i", "t", "t", "e", "r">>,
        <<"i", "n", "f", "u", "r", "i", "a", "t", "e", "d">>, <<"l", "i", "v", "i", "d">>,
        <<"e", "n", "r", "a", "g", "e", "d">> >>,
     fear |-> <<
        <<"s", "c", "a", "r", "e", "d">>, <<"a", "f", "r", "a", "i", "d">>,
        <<"n", "e", "r", "v", "o", "u", "s">>, <<"w", "o", "r", "r", "i", "e", "d">>,
        <<"a", "n", "x", "i", "o", "u", "s">>,
        <<"f", "r", "i", "g", "h", "t", "e", "n", "e", "d">>,
        <<"t", "e", "r", "r", "i", "f", "i", "e", "d">>,
        <<"p", "a", "n", "i", "c", "k", "e", "d">>,
        <<"c", "o", "n", "c", "e", "r", "n", "e", "d">>,
        <<"a", "p", "p", "r", "e", "h", "e", "n", "s", "i", "v", "e">>,
        <<"t", "i", "m", "i", "d">>, <<"p", "h", "o", "b", "i", "c">>,
        <<"i", "n", "t", "i", "m", "i", "d", "a", "t", "e", "d">>,
        <<"u", "n", "e", "a", "s", "y">>, <<"d", "i", "s", "t", "u", "r", "b", "e", "d">>,
        <<"a", "l", "a", "r", "m", "e", "d">> >>,
     surprise |-> <<
        <<"s", "u", "r", "p", "r", "i", "s", "e", "d">>, <<"a", "m", "a", "z", "e", "d">>,
        <<"s", "h", "o", "c", "k", "e", "d">>, <<"s", "t", "u", "n", "n", "e", "d">>,
        <<"a", "s", "t", "o", "n", "i", "s", "h", "e", "d">>,
        <<"u", "n", "b", "e", "l", "i", "e", "v", "a", "b", "l", "e">>,
        <<"i", "n", "c", "r", "e", "d", "i", "b", "l", "e">>,
        <<"u", "n", "e", "x", "p", "e", "c", "t", "e", "d">>,
        <<"r", "e", "m", "a", "r", "k", "a", "b", "l", "e">>, <<"w", "o", "w">>,
        <<"a", "s", "t", "o", "u", "n", "d", "i", "n", "g">>,
        <<"s", "t", "a", "r", "t", "l", "i", "n", "g">>,
        <<"u", "n", "a", "n", "t", "i", "c", "i", "p", "a", "t", "e", "d">>,
        <<"f", "l", "a", "b", "b", "e", "r", "g", "a", "s", "t", "e", "d">> >>,
     disgust |-> <<
        <<"d", "i", "s", "g", "u", "s", "t", "e", "d">>,
        <<"d", "i", "s", "g", "u", "s", "t", "i", "n", "g">>, <<"g", "r", "o", "s", "s">>,
        <<"n", "a", "u", "s", "e", "o", "u", "s">>, <<"r", "e", "v", "o", "l", "t", "e", "d">>,
        <<"s", "i", "c", "k", "e", "n", "e", "d">>, <<"a", "p", "p", "a", "l", "l", "e", "d">>,
        <<"r", "e", "p", "u", "l", "s", "e", "d">>,
        <<"h", "o", "r", "r", "i", "f", "i", "e", "d">>, <<"i", "c", "k", "y">>,
        <<"y", "u", "c", "k", "y">>, <<"f", "i", "l", "t", "h", "y">>,
        <<"c", "o", "n", "t", "a", "m", "i", "n", "a", "t", "e", "d">>,
        <<"r", "e", "p", "u", "g", "n", "a", "n", "t">>,
        <<"l", "o", "a", "t", "h", "s", "o", "m", "e">>,
        <<"a", "b", "h", "o", "r", "r", "e", "n", "t">> >>]

\* lines 177-180
PositiveIndicators ==
    <<
      <<"g", "o", "o", "d">>, <<"n", "i", "c", "e">>,
      <<"e", "x", "c", "e", "l", "l", "e", "n", "t">>, <<"f", "i", "n", "e">>,
      <<"o", "k", "a", "y">>, <<"a", "l", "r", "i", "g", "h", "t">>,
      <<"s", "u", "p", "e", "r">>, <<"c", "o", "o", "l">>,
      <<"a", "w", "e", "s", "o", "m", "e">>, <<"b", "r", "i", "l", "l", "i", "a", "n", "t">>,
      <<"o", "u", "t", "s", "t", "a", "n", "d", "i", "n", "g">>,
      <<"m", "a", "r", "v", "e", "l", "o", "u", "s">> >>

\* lines 181-184
NegativeIndicators ==
    <<
      <<"b", "a", "d">>, <<"t", "e", "r", "r", "i", "b", "l", "e">>,
      <<"a", "w", "f", "u", "l">>, <<"p", "o", "o", "r">>, <<"w", "r", "o", "n", "g">>,
      <<"i", "n", "c", "o", "r", "r", "e", "c", "t">>, <<"b", "a", "d", "l", "y">>,
      <<"h", "o", "r", "r", "i", "b", "l", "e">>, <<"d", "r", "e", "a", "d", "f", "u", "l">>,
      <<"a", "t", "r", "o", "c", "i", "o", "u", "s">>,
      <<"i", "n", "f", "e", "r", "i", "o", "r">>,
      <<"u", "n", "s", "a", "t", "i", "s", "f", "a", "c", "t", "o", "r", "y">> >>

\* sum(1 for word in words if word in keywords)
KeywordCount(words, keywords) == CountIf(words, LAMBDA word : word \in ToSet(keywords))

RECURSIVE FirstMax_Last(_, _, _)
\* the label with the largest count that comes last in the dictionary
FirstMax_Last(counts, i, best) ==
    IF i > Len(EmotionLabels) THEN best
    ELSE FirstMax_Last(counts, i + 1,
                       IF counts[EmotionLabels[i]] >= counts[best] THEN EmotionLabels[i]
                       ELSE best)

RECURSIVE FirstMax(_, _, _)
\* max(emotion_counts, key=emotion_counts.get): the first label with the largest count
FirstMax(counts, i, best) ==
    IF i > Len(EmotionLabels) THEN best
    ELSE FirstMax(counts, i + 1,
                  IF counts[EmotionLabels[i]] > counts[best] THEN EmotionLabels[i] ELSE best)

\* _analyze_emotion with "pos_count >= neg_count" at line 189
_analyze_emotion_TiePositive(text) ==
    IF text = <<>> THEN "neutral"
    ELSE LET words == Split(Lower(text))
             emotion_counts ==
                 [e \in ToSet(EmotionLabels) |-> KeywordCount(words, EmotionKeywords[e])]
             dominant_emotion == FirstMax(emotion_counts, 2, EmotionLabels[1])
         IN IF emotion_counts[dominant_emotion] = 0
            THEN LET pos_count == KeywordCount(words, PositiveIndicators)
                     neg_count == KeywordCount(words, NegativeIndicators)
                 IN IF pos_count >= neg_count THEN "positive"
                    ELSE IF neg_count > pos_count THEN "negative"
                    ELSE "neutral"
            ELSE dominant_emotion

_analyze_emotion(text) ==
    IF text = <<>> THEN "neutral"
    ELSE LET words == Split(Lower(text))
             emotion_counts ==
                 [e \in ToSet(EmotionLabels) |-> KeywordCount(words, EmotionKeywords[e])]
             dominant_emotion == FirstMax(emotion_counts, 2, EmotionLabels[1])
         IN IF emotion_counts[dominant_emotion] = 0
            THEN LET pos_count == KeywordCount(words, PositiveIndicators)
                     neg_count == KeywordCount(words, NegativeIndicators)
                 IN IF pos_count > neg_count THEN "positive"
                    ELSE IF neg_count > pos_count THEN "negative"
                    ELSE "neutral"
            ELSE dominant_emotion

\* the report of lines 45-51
EmptyReport ==
    [pronunciation |-> Num(0), articulation |-> Num(0), pace |-> Num(0),
     clarity |-> Num(0), emotion |-> "neutral"]

\* lines 56-65 with the basic estimate used whether or not there is a prompt
PronunciationEntry_Estimated(transcription, original_prompt) ==
    _estimate_pronunciation(transcription, original_prompt)

\* lines 56-65: the value stored under 'pronunciation'
PronunciationEntry(transcription, original_prompt) ==
    IF Truthy(original_prompt)
    THEN generate_pronunciation_report(transcription, original_prompt).summary.overall_score
    ELSE _estimate_pronunciation(transcription, original_prompt)

analyze_speech(transcription, original_prompt) ==
    IF transcription = <<>> THEN EmptyReport
    ELSE [pronunciation |-> PronunciationEntry(transcription, original_prompt),
          articulation |-> _analyze_articulation(transcription, original_prompt),
          pace |-> _analyze_pace(transcription, original_prompt),
          clarity |-> _analyze_clarity(transcription, original_prompt),
          emotion |-> _analyze_emotion(transcription)]

(***************************************************************************)
(* analyze_speech on a transcript of any type: a value is its type and,    *)
(* for a str or an int, what it holds.                                     *)
(***************************************************************************)
PyStr(s) == [type |-> "str", value |-> s]
PyInt(k) == [type |-> "int", value |-> k]
PyNone == [type |-> "NoneType", value |-> 0]

\* bool(value): what "if not transcription" (line 44) tests
PyTruthy(v) ==
    CASE v.type = "str" -> v.value # <<>>
      [] v.type = "int" -> v.value # 0
      [] v.type = "NoneType" -> FALSE

\* 'int' object has no attribute 'lower' (line 79 of the pronunciation
\* analyzer, reached from line 58) or 'split' (line 475, reached from line 65)
AttributeError == [raised |-> "AttributeError"]

\* analyze_speech(transcription, original_prompt), transcription of any type
analyze_speech_of(transcription, original_prompt) ==
    IF ~PyTruthy(transcription) THEN EmptyReport
    ELSE IF transcription.type = "str"
    THEN analyze_speech(transcription.value, original_prompt)
    ELSE AttributeError

(***************************************************************************)
(* DeepgramClientWrapper.transcribe_audio_from_bytes_with_retry.           *)
(***************************************************************************)
\* the word looked for in the message of an exception (line 123)
TimeoutWord == <<"t", "i", "m", "e", "o", "u", "t">>

\* sub in s, for two str
Contains(sub, s) ==
    \E i \in 0..(Len(s) - Len(sub)) : SubSeq(s, i + 1, i + Len(sub)) = sub

\* the two outcomes of one call of transcribe_audio_from_bytes: the transcript
\* returned (line 99), or the exception raised again (line 102)
Transcribed(transcript) == [ok |-> TRUE, value |-> transcript]
Failed(message) == [ok |-> FALSE, value |-> message]

\* the locals at line 116, before the first iteration; attempts lists the
\* calls of transcribe_audio_from_bytes made, each with its buffer and outcome
NewRetry(audio_bytes, max_retries) ==
    [audio_bytes |-> audio_bytes, max_retries |-> max_retries,
     current_buffer |-> audio_bytes, retries |-> 0,
     attempts |-> <<>>, status |-> "running", value |-> <<>>]

\* line 123 retrying after any exception, whatever its message
IsRetriable_AnyError(r, message) == r.retries < r.max_retries

\* the condition of line 123
IsRetriable(r, message) ==
    Contains(TimeoutWord, Lower(message)) /\ r.retries < r.max_retries

\* one iteration of the loop of line 116, the call of line 119 ending with outcome
RetryStep(r, outcome) ==
    LET attempted == [r EXCEPT !.attempts =
                        Append(@, [buffer |-> r.current_buffer, outcome |-> outcome])]
        halved == SubSeq(r.current_buffer, 1, Len(r.current_buffer) \div 2)
    IN IF outcome.ok
       THEN [attempted EXCEPT !.status = "returned", !.value = outcome.value]
       ELSE IF IsRetriable(r, outcome.value)
       THEN IF Len(halved) = 0
            THEN [attempted EXCEPT !.current_buffer = halved,
                                   !.status = "raised", !.value = outcome.value]
            ELSE [attempted EXCEPT !.current_buffer = halved, !.retries = @ + 1]
       ELSE [attempted EXCEPT !.status = "raised", !.value = outcome.value]

(***************************************************************************)
(* IntegratedSpeechAnalysisApp: the collection of ESP32 audio.             *)
(***************************************************************************)
\* lines 135-137
sample_rate == 44100
channels == 2
sample_width == 2

\* int(x) for a float x >= 0
IntOf(x) == x.n \div x.d

\* lines 178 and 181: int(int(sample_rate * channels * sample_width * duration) * 1.1);
\* the float product by 1.1 of an integer below 2^50 truncates to a tenth of
\* eleven times the integer
MaxBufferSize(duration) ==
    LET max_buffer_size == IntOf(RMul(Num(sample_rate * channels * sample_width), duration))
    IN IntOf(RMul(Num(max_buffer_size), Rat(11, 10)))

\* lines 188-194 dropping a chunk that does not fit, whole
Accumulated_DropWhole(esp32_audio_buffer, audio_chunk, max_buffer_size) ==
    IF Len(esp32_audio_buffer) + Len(audio_chunk) <= max_buffer_size
    THEN esp32_audio_buffer \o audio_chunk
    ELSE esp32_audio_buffer

\* lines 188-194: esp32_audio_buffer after the chunk
Accumulated(esp32_audio_buffer, audio_chunk, max_buffer_size) ==
    IF Len(esp32_audio_buffer) + Len(audio_chunk) <= max_buffer_size
    THEN esp32_audio_buffer \o audio_chunk
    ELSE LET remaining_space == max_buffer_size - Len(esp32_audio_buffer)
         IN IF remaining_space > 0
            THEN esp32_audio_buffer \o SubSeq(audio_chunk, 1, remaining_space)
            ELSE esp32_audio_buffer

\* the state at line 184, before the first test of the loop: the queue
\* emptied (lines 166-167), listening (line 170), the buffer reset (line 173);
\* dequeued lists the chunks taken from the queue, received counts the
\* datagrams of the receiver thread and the bytes they held
NewCollection(function, duration) ==
    [function |-> function, duration |-> duration,
     audio_queue |-> <<>>, is_listening |-> TRUE,
     esp32_audio_buffer |-> <<>>, max_buffer_size |-> MaxBufferSize(duration),
     dequeued |-> <<>>, received |-> 0, bytes_received |-> 0, at |-> "collecting"]

(***************************************************************************)
(* ButtonTriggerAnalyzer.run: the datagrams of the audio socket. A byte is *)
(* written as the character it encodes, or as "0xFF" or "0x80" for a byte  *)
(* that no UTF-8 text holds on its own.                                    *)
(***************************************************************************)
UndecodableBytes == {"0xFF", "0x80"}
Digits == {"0", "1", "2", "3", "4", "5", "6", "7", "8", "9"}

\* data.decode('utf-8') raises UnicodeDecodeError (line 707)
DecodeRaises(data) == \E i \in 1..Len(data) : data[i] \in UndecodableBytes

\* msg.startswith(prefix)
startswith(msg, prefix) ==
    Len(msg) >= Len(prefix) /\ SubSeq(msg, 1, Len(prefix)) = prefix

RECURSIVE SplitOnFrom(_, _, _, _, _)
SplitOnFrom(s, sep, i, cur, acc) ==
    IF i > Len(s) THEN Append(acc, cur)
    ELSE IF s[i] = sep THEN SplitOnFrom(s, sep, i + 1, <<>>, Append(acc, cur))
    ELSE SplitOnFrom(s, sep, i + 1, Append(cur, s[i]), acc)

\* msg.split(sep), sep of one character
SplitOn(s, sep) == SplitOnFrom(s, sep, 1, <<>>, <<>>)

\* int(s) raises ValueError: s, without the whitespace around it and without
\* a sign, is not a run of digits
IntRaises(s) ==
    LET stripped == Strip(s)
        unsigned == IF stripped # <<>> /\ stripped[1] \in {"+", "-"}
                    THEN Tail(stripped) ELSE stripped
    IN unsigned = <<>> \/ \E i \in 1..Len(unsigned) : unsigned[i] \notin Digits

\* the size below which a datagram is looked at as a control message (line 704)
ControlSize == 100

MsgStart == <<"S", "T", "A", "R", "T">>
MsgStop == <<"S", "T", "O", "P">>

\* line 717: duration_ms = int(msg.split(":")[1]) if ":" in msg else 0 raises
DurationRaises(msg) ==
    (\E i \in 1..Len(msg) : msg[i] = ":") /\ IntRaises(SplitOn(msg, ":")[2])

\* lines 704-723, what the look at a datagram ends with: "continue" (line
\* 713), "break" (line 720), or "audio" when line 726 is reached
ControlOutcome(data) ==
    IF Len(data) < ControlSize
    THEN IF DecodeRaises(data) THEN "audio"
         ELSE IF startswith(data, MsgStart) THEN "continue"
         ELSE IF startswith(data, MsgStop)
         THEN IF DurationRaises(data) THEN "audio" ELSE "break"
         ELSE "audio"
    ELSE "audio"

\* lines 696-699: the locals before a recording; processed lists the
\* recordings handed to process_recording, received counts the datagrams
NewRun ==
    [audio_buffer |-> <<>>, recording_started |-> FALSE, at |-> "receiving",
     data |-> <<>>, received |-> 0, processed |-> <<>>]

\* lines 702-727: one datagram received in the inner loop
Received(b, data) ==
    LET outcome == ControlOutcome(data)
        counted == [b EXCEPT !.data = data, !.received = @ + 1]
    IN IF outcome = "continue" THEN [counted EXCEPT !.recording_started = TRUE]
       ELSE IF outcome = "break"
       THEN [counted EXCEPT !.recording_started = FALSE, !.at = "processing"]
       ELSE IF b.recording_started
       THEN [counted EXCEPT !.audio_buffer = @ \o data]
       ELSE counted

\* lines 729-744, then lines 693-699 of the next iteration
Processed(b) ==
    [b EXCEPT !.processed = IF Len(b.audio_buffer) > 0 THEN Append(@, b.audio_buffer) ELSE @,
              !.audio_buffer = <<>>, !.recording_started = FALSE, !.at = "receiving"]

(***************************************************************************)
(* The inputs.                                                             *)
(***************************************************************************)
\* the most words a drawn transcript has
MaxWords == 2
\* the most words a drawn prompt has
MaxPromptWords == 2
\* the most characters a drawn word has
MaxWordLen == 3
\* the most calls made on the shared analyzer
MaxCalls == 3

\* the most words a transcript drawn for its fluency has
MaxFluencyWords == 5
\* the most words a transcript drawn for its emotion has
MaxEmotionWords == 3
\* the most words a long transcript of one repeated word has
MaxLongWords == 21

W_the == <<"t", "h", "e">>
W_cat == <<"c", "a", "t">>
W_CatDot == <<"C", "a", "t", ".">>
W_cag == <<"c", "a", "g">>
W_cats == <<"c", "a", "t", "s">>
W_um == <<"u", "m">>
W_kitten == <<"k", "i", "t", "t", "e", "n">>
W_sitting == <<"s", "i", "t", "t", "i", "n", "g">>

W_The == <<"T", "h", "e">>
W_okay == <<"o", "k", "a", "y">>
W_happy == <<"h", "a", "p", "p", "y">>
W_Happy == <<"H", "a", "p", "p", "y">>
W_sad == <<"s", "a", "d">>
W_angry == <<"a", "n", "g", "r", "y">>
W_frustrated == <<"f", "r", "u", "s", "t", "r", "a", "t", "e", "d">>
W_disgusted == <<"d", "i", "s", "g", "u", "s", "t", "e", "d">>
W_good == <<"g", "o", "o", "d">>
W_bad == <<"b", "a", "d">>

PromptVocabulary == {W_the, W_cat, W_um}
TranscriptVocabulary == PromptVocabulary \cup {W_CatDot, W_cag, W_cats}

RECURSIVE Join(_)
\* ' '.join(words)
Join(words) ==
    IF words = <<>> THEN <<>>
    ELSE IF Len(words) = 1 THEN words[1]
    ELSE words[1] \o <<" ">> \o Join(Tail(words))

\* the sequences of at most n elements of V
SeqsOf(V, n) == UNION {[1..k -> V] : k \in 0..n}

\* the texts of at most n words of V, the words one space apart
TextsOf(V, n) == {Join(ws) : ws \in SeqsOf(V, n)}

\* texts whose spacing and punctuation leave them without words, or nearly
EdgeTexts ==
    { <<" ">>, <<".">>, <<"?", "!">>, <<" ", "t", "h", "e">>,
      <<"u", "m", " ", " ", "?">>, <<" ", ".", " ">> }

\* a transcript and a prompt whose three component scores all have more than
\* 2 decimals (8.666.., 5.857.., 6.666..), the blend being 7.2238..
BlendTranscripts == {Join(<<W_the, W_the, W_cat, W_the, W_the, W_the, W_um>>)}
BlendPrompts == {Join(<<W_the, W_the, W_the>>)}

Transcripts == TextsOf(TranscriptVocabulary, MaxWords) \cup EdgeTexts \cup BlendTranscripts
\* prompts of three words, one more than the longest drawn transcript has at
\* first: an attempt ratio of 2/3 with a similarity just above 0.4, and at 0.4
FloorPrompts == {Join(<<W_um, W_cat, W_the>>), Join(<<W_the, W_um, W_um>>)}
Prompts ==
    TextsOf(PromptVocabulary, MaxPromptWords) \cup FloorPrompts \cup BlendPrompts
        \cup EdgeTexts \cup {NoneStr}

\* a word, a capitalised word, a filler of both fluency scores and a filler of
\* _analyze_fluency alone
FluencyVocabulary == {W_the, W_The, W_um, W_okay}
\* keywords of joy, sadness and anger, a keyword listed under two emotions
\* (twice), a positive and a negative indicator, and a word of no list
EmotionVocabulary ==
    {W_happy, W_Happy, W_sad, W_angry, W_frustrated, W_disgusted, W_good, W_bad, W_the}
\* n times the same word, one space apart
Repeated(word, n) == Join([i \in 1..n |-> word])
LongTexts == {Repeated(word, n) : word \in {W_the, W_um}, n \in 0..MaxLongWords}

Texts ==
    TextsOf(FluencyVocabulary, MaxFluencyWords) \cup TextsOf(EmotionVocabulary, MaxEmotionWords)
        \cup LongTexts \cup EdgeTexts

WordAlphabet == {"a", "b", "A"}
Words == SeqsOf(WordAlphabet, MaxWordLen) \cup {W_kitten, W_sitting}

CallTranscripts == {<<>>, Join(<<W_the, W_cag>>), Join(<<W_um, W_cat>>)}
CallPrompts == {NoneStr, Join(<<W_the, W_cat>>)}
Callers == {1, 2}

(***************************************************************************)
(* The state.                                                              *)
(***************************************************************************)
VARIABLES
    args,               \* the arguments of a single call
    op,                 \* the operation of the single call, "none" before it
    result,             \* what the single call returned
    analyzer,           \* the fields of the shared SpeechAnalyzer instance
    pc,                 \* per caller: the line of analyze_speech it is at
    call,               \* per caller: the arguments and the ordinal of its call
    analysis_results,   \* per owner: the dictionary analysis_results (line 53)
    alignment_info,     \* per owner: the dictionary alignment_info (line 82)
    returned,           \* the calls that returned: ordinal, arguments, report
    ncalls,             \* the number of calls made so far
    retry,              \* a call of transcribe_audio_from_bytes_with_retry: its locals
    esp32,              \* the ESP32 collection loop: the queue, the buffer, the cap
    button              \* ButtonTriggerAnalyzer.run: the locals of its loops

singleVars == <<args, op, result>>
callVars == <<analyzer, pc, call, analysis_results, alignment_info, returned, ncalls>>
deviceVars == <<retry, esp32, button>>
vars == <<args, op, result, analyzer, pc, call, analysis_results, alignment_info,
          returned, ncalls, retry, esp32, button>>

\* a key a dictionary does not hold
Absent == [absent |-> TRUE]

\* analysis_results = {} (line 53)
NewAnalysisResults ==
    [pronunciation |-> Absent, articulation |-> Absent, pace |-> Absent,
     clarity |-> Absent, emotion |-> "absent"]

\* a caller that is not in a call has no frame
NoCall == [transcription |-> <<>>, original_prompt |-> NoneStr, id |-> 0]

\* SpeechAnalyzer.__init__ (lines 9-35) and PronunciationAnalyzer.__init__
\* (lines 11-69): the fields, each by the keys or the number of entries it holds
SelfAfterInit ==
    [pronunciation_analyzer |->
        [phoneme_map |-> 39, phonetic_errors |-> {"TH", "R", "L", "V", "ZH", "DH"}],
     grammar_rules |-> {"subject_verb_agreement", "article_usage", "common_errors"},
     advanced_vocabulary |-> 19,
     positive_indicators |-> 10]

NoCalls ==
    /\ analyzer = SelfAfterInit
    /\ pc = [c \in Callers |-> "idle"]
    /\ call = [c \in Callers |-> NoCall]
    /\ analysis_results = [c \in Callers |-> NewAnalysisResults]
    /\ alignment_info = [c \in Callers |-> NewAlignmentInfo]
    /\ returned = {}
    /\ ncalls = 0

NoSingle ==
    /\ args = <<>>
    /\ op = "none"
    /\ result = <<>>

\* no call of the transcription client, no collection loop, no main loop
NoDevice ==
    /\ retry = <<>>
    /\ esp32 = <<>>
    /\ button = <<>>

(***************************************************************************)
(* Spec: one call of one operation of the engine on a drawn transcript     *)
(* and prompt.                                                             *)
(***************************************************************************)
Init ==
    /\ args \in Transcripts \X Prompts
    /\ op = "none"
    /\ result = <<>>
    /\ NoCalls
    /\ NoDevice

\* SpeechAnalyzer.analyze_speech(transcription, original_prompt)
AnalyzeSpeech ==
    /\ op = "none"
    /\ op' = "analyze_speech"
    /\ result' = analyze_speech(args[1], args[2])
    /\ UNCHANGED <<args, callVars, deviceVars>>

\* PronunciationAnalyzer.phoneme_align(transcription, original_text)
PhonemeAlign ==
    /\ op = "none"
    /\ args[2] # NoneStr
    /\ op' = "phoneme_align"
    /\ result' = phoneme_align(args[1], args[2])
    /\ UNCHANGED <<args, callVars, deviceVars>>

\* PronunciationAnalyzer.pronunciation_scoring(transcription, original_text)
PronunciationScoring ==
    /\ op = "none"
    /\ args[2] # NoneStr
    /\ op' = "pronunciation_scoring"
    /\ result' = pronunciation_scoring(args[1], args[2])
    /\ UNCHANGED <<args, callVars, deviceVars>>

\* PronunciationAnalyzer.generate_pronunciation_report(transcription, original_text)
GeneratePronunciationReport ==
    /\ op = "none"
    /\ args[2] # NoneStr
    /\ op' = "generate_pronunciation_report"
    /\ result' = generate_pronunciation_report(args[1], args[2])
    /\ UNCHANGED <<args, callVars, deviceVars>>

\* SpeechAnalyzer._analyze_articulation(text, original_prompt)
AnalyzeArticulation ==
    /\ op = "none"
    /\ op' = "_analyze_articulation"
    /\ result' = _analyze_articulation(args[1], args[2])
    /\ UNCHANGED <<args, callVars, deviceVars>>

\* SpeechAnalyzer._analyze_clarity(text, original_prompt)
AnalyzeClarity ==
    /\ op = "none"
    /\ op' = "_analyze_clarity"
    /\ result' = _analyze_clarity(args[1], args[2])
    /\ UNCHANGED <<args, callVars, deviceVars>>

\* SpeechAnalyzer._analyze_pace(text, original_prompt)
AnalyzePace ==
    /\ op = "none"
    /\ op' = "_analyze_pace"
    /\ result' = _analyze_pace(args[1], args[2])
    /\ UNCHANGED <<args, callVars, deviceVars>>

\* PronunciationAnalyzer._calculate_clarity_score(transcription, original_text)
CalculateClarityScore ==
    /\ op = "none"
    /\ args[2] # NoneStr
    /\ op' = "_calculate_clarity_score"
    /\ result' = _calculate_clarity_score(args[1], args[2])
    /\ UNCHANGED <<args, callVars, deviceVars>>

Next ==
    \/ AnalyzeSpeech
    \/ PhonemeAlign
    \/ PronunciationScoring
    \/ GeneratePronunciationReport
    \/ CalculateClarityScore
    \/ AnalyzeArticulation
    \/ AnalyzeClarity
    \/ AnalyzePace

Spec == Init /\ [][Next]_vars

(***************************************************************************)
(* SpecWords: one call of a word primitive on two drawn words.             *)
(***************************************************************************)
InitWords ==
    /\ args \in Words \X Words
    /\ op = "none"
    /\ result = <<>>
    /\ NoCalls
    /\ NoDevice

\* PronunciationAnalyzer._edit_distance(s1, s2)
EditDistance ==
    /\ op = "none"
    /\ op' = "_edit_distance"
    /\ result' = _edit_distance(args[1], args[2])
    /\ UNCHANGED <<args, callVars, deviceVars>>

\* PronunciationAnalyzer._word_similarity(word1, word2)
WordSimilarity ==
    /\ op = "none"
    /\ op' = "_word_similarity"
    /\ result' = _word_similarity(args[1], args[2])
    /\ UNCHANGED <<args, callVars, deviceVars>>

NextWords ==
    \/ EditDistance
    \/ WordSimilarity

SpecWords == InitWords /\ [][NextWords]_vars

(***************************************************************************)
(* SpecText: one call of a scorer on a drawn transcript, no prompt given.  *)
(***************************************************************************)
InitText ==
    /\ args \in Texts \X {NoneStr}
    /\ op = "none"
    /\ result = <<>>
    /\ NoCalls
    /\ NoDevice

\* SpeechAnalyzer._analyze_fluency(text)
AnalyzeFluency ==
    /\ op = "none"
    /\ op' = "_analyze_fluency"
    /\ result' = _analyze_fluency(args[1])
    /\ UNCHANGED <<args, callVars, deviceVars>>

\* PronunciationAnalyzer._calculate_fluency_score(transcription)
CalculateFluencyScore ==
    /\ op = "none"
    /\ op' = "_calculate_fluency_score"
    /\ result' = _calculate_fluency_score(args[1])
    /\ UNCHANGED <<args, callVars, deviceVars>>

\* SpeechAnalyzer._analyze_emotion(text)
AnalyzeEmotion ==
    /\ op = "none"
    /\ op' = "_analyze_emotion"
    /\ result' = _analyze_emotion(args[1])
    /\ UNCHANGED <<args, callVars, deviceVars>>

NextText ==
    \/ AnalyzeSpeech
    \/ AnalyzeFluency
    \/ CalculateFluencyScore
    \/ AnalyzeEmotion

SpecText == InitText /\ [][NextText]_vars

(***************************************************************************)
(* SpecLonger: phoneme_align on a drawn transcript and prompt, then again   *)
(* on the same transcript with further words after it.                     *)
(***************************************************************************)
\* the words put after a transcript: one word, and two words
FurtherWords == {W_CatDot, W_um, Join(<<W_the, W_cag>>)}

InitLonger ==
    /\ args \in Transcripts \X (Prompts \ {NoneStr})
    /\ op = "none"
    /\ result = <<>>
    /\ NoCalls
    /\ NoDevice

\* phoneme_align(transcription + " " + further, original_text), after the call
\* on transcription
PhonemeAlignLonger ==
    /\ op = "phoneme_align"
    /\ \E further \in FurtherWords :
        /\ args' = <<args[1] \o <<" ">> \o further, args[2]>>
        /\ result' = phoneme_align(args[1] \o <<" ">> \o further, args[2])
    /\ op' = "phoneme_align_longer"
    /\ UNCHANGED <<callVars, deviceVars>>

NextLonger ==
    \/ PhonemeAlign
    \/ PhonemeAlignLonger

SpecLonger == InitLonger /\ [][NextLonger]_vars

(***************************************************************************)
(* SpecTypes: one call of analyze_speech on a transcript that is a str,    *)
(* None or an int.                                                         *)
(***************************************************************************)
\* null, the numbers 0 and 5, and the drawn transcripts
TypedTranscripts ==
    {PyNone, PyInt(0), PyInt(5)} \cup {PyStr(transcription) : transcription \in Transcripts}

InitTypes ==
    /\ args \in TypedTranscripts \X Prompts
    /\ op = "none"
    /\ result = <<>>
    /\ NoCalls
    /\ NoDevice

\* SpeechAnalyzer.analyze_speech(transcription, original_prompt)
AnalyzeSpeechOf ==
    /\ op = "none"
    /\ op' = "analyze_speech"
    /\ result' = analyze_speech_of(args[1], args[2])
    /\ UNCHANGED <<args, callVars, deviceVars>>

NextTypes == AnalyzeSpeechOf

SpecTypes == InitTypes /\ [][NextTypes]_vars

(***************************************************************************)
(* SpecRetry: one call of transcribe_audio_from_bytes_with_retry, each     *)
(* call of transcribe_audio_from_bytes returning or raising as it may.     *)
(* Every such call ends (the request returns, fails or times out), hence   *)
(* the weak fairness of the steps.                                         *)
(***************************************************************************)
\* the most bytes a drawn audio buffer has
MaxBytes == 9
\* the largest max_retries drawn
MaxRetries == 3

\* n bytes, the i-th holding i
Bytes(n) == [i \in 1..n |-> i]
\* messages with the word in lower case, capitalised, and without it; no message
ErrorMessages ==
    { <<"r", "e", "a", "d", " ", "t", "i", "m", "e", "o", "u", "t">>,
      <<"T", "i", "m", "e", "o", "u", "t">>,
      <<"C", "o", "n", "n", "e", "c", "t", "i", "o", "n", " ", "r", "e", "s", "e", "t">>,
      <<>> }
TranscriptionOutcomes ==
    {Transcribed(W_the), Transcribed(<<>>)} \cup {Failed(message) : message \in ErrorMessages}

InitRetry ==
    /\ retry \in {NewRetry(Bytes(n), max_retries) : n \in 0..MaxBytes, max_retries \in 0..MaxRetries}
    /\ esp32 = <<>>
    /\ button = <<>>
    /\ NoSingle
    /\ NoCalls

\* an iteration whose call of transcribe_audio_from_bytes returns (line 119)
AttemptReturns ==
    /\ retry.status = "running"
    /\ retry.retries <= retry.max_retries
    /\ \E outcome \in TranscriptionOutcomes :
        /\ outcome.ok
        /\ retry' = RetryStep(retry, outcome)
    /\ UNCHANGED <<singleVars, callVars, esp32, button>>

\* an iteration whose call of transcribe_audio_from_bytes raises (lines 120-133)
AttemptRaises ==
    /\ retry.status = "running"
    /\ retry.retries <= retry.max_retries
    /\ \E outcome \in TranscriptionOutcomes :
        /\ ~outcome.ok
        /\ retry' = RetryStep(retry, outcome)
    /\ UNCHANGED <<singleVars, callVars, esp32, button>>

NextRetry ==
    \/ AttemptReturns
    \/ AttemptRaises

SpecRetry == InitRetry /\ [][NextRetry]_vars /\ WF_vars(NextRetry)

(***************************************************************************)
(* SpecCollect: the collection loop of run_esp32_analysis and of            *)
(* run_esp32_analysis_with_prompt, with the receiver thread filling the    *)
(* queue meanwhile; the loop ends when the duration has elapsed.           *)
(***************************************************************************)
\* the most bytes a received datagram has
MaxChunkLen == 4
\* the most datagrams received during a collection
MaxChunks == 4
\* the longest duration drawn, in units of 1/32768 s (5.38 bytes of audio)
MaxDuration == 2

Durations == {Rat(k, 32768) : k \in 0..MaxDuration}
CollectingFunctions == {"run_esp32_analysis", "run_esp32_analysis_with_prompt"}

InitCollect ==
    /\ esp32 \in {NewCollection(f, duration) : f \in CollectingFunctions, duration \in Durations}
    /\ retry = <<>>
    /\ button = <<>>
    /\ NoSingle
    /\ NoCalls

\* UDPAudioReceiver._receive_loop: a datagram is received and, while
\* listening, put in the queue; its bytes are numbered as they were sent
ReceiveChunk ==
    /\ esp32.received < MaxChunks
    /\ \E len \in 0..MaxChunkLen :
        LET data == [i \in 1..len |-> esp32.bytes_received + i]
        IN esp32' = [esp32 EXCEPT !.received = @ + 1,
                                  !.bytes_received = @ + len,
                                  !.audio_queue = IF esp32.is_listening
                                                  THEN Append(@, data) ELSE @]
    /\ UNCHANGED <<singleVars, callVars, retry, button>>

\* an iteration of the loop (lines 184-196, or 439-451) that finds a chunk
CollectChunk ==
    /\ esp32.at = "collecting"
    /\ RLt(Num(0), esp32.duration)
    /\ esp32.audio_queue # <<>>
    /\ LET audio_chunk == Head(esp32.audio_queue)
       IN esp32' = [esp32 EXCEPT !.audio_queue = Tail(@),
                                 !.dequeued = Append(@, audio_chunk),
                                 !.esp32_audio_buffer =
                                    Accumulated(@, audio_chunk, esp32.max_buffer_size)]
    /\ UNCHANGED <<singleVars, callVars, retry, button>>

\* the duration has elapsed: the loop is left and the listening stopped
\* (line 207, or 462)
StopCollecting ==
    /\ esp32.at = "collecting"
    /\ esp32' = [esp32 EXCEPT !.at = "collected", !.is_listening = FALSE]
    /\ UNCHANGED <<singleVars, callVars, retry, button>>

NextCollect ==
    \/ ReceiveChunk
    \/ CollectChunk
    \/ StopCollecting

SpecCollect == InitCollect /\ [][NextCollect]_vars

(***************************************************************************)
(* SpecButton: ButtonTriggerAnalyzer.run receiving the datagrams the       *)
(* ESP32 (or anyone) sends to the audio port.                              *)
(***************************************************************************)
\* the most datagrams received
MaxDatagrams == 4

\* n times the byte b
Filled(b, n) == [i \in 1..n |-> b]

\* START; STOP alone, with a duration, with a duration between spaces, with
\* no duration after the colon, with a duration that is no number; a STOP
\* followed by an undecodable byte; audio; a STOP of 99 bytes and one of 100
Datagrams ==
    { MsgStart,
      MsgStop,
      MsgStop \o <<":", "1", "5", "0", "0">>,
      MsgStop \o <<":", " ", "7", " ">>,
      MsgStop \o <<":">>,
      MsgStop \o <<":", "1", "s">>,
      MsgStop \o <<"0xFF">>,
      <<"0x80", "a">>,
      MsgStop \o Filled("a", ControlSize - 5),
      MsgStop \o Filled("a", ControlSize - 4) }

InitButton ==
    /\ button = NewRun
    /\ retry = <<>>
    /\ esp32 = <<>>
    /\ NoSingle
    /\ NoCalls

\* data, addr = self.audio_sock.recvfrom(4096) and the rest of the iteration
ReceiveDatagram ==
    /\ button.at = "receiving"
    /\ button.received < MaxDatagrams
    /\ \E data \in Datagrams : button' = Received(button, data)
    /\ UNCHANGED <<singleVars, callVars, retry, esp32>>

\* the recording is processed and the next one awaited
ProcessRecording ==
    /\ button.at = "processing"
    /\ button' = Processed(button)
    /\ UNCHANGED <<singleVars, callVars, retry, esp32>>

NextButton ==
    \/ ReceiveDatagram
    \/ ProcessRecording

SpecButton == InitButton /\ [][NextButton]_vars

(***************************************************************************)
(* SpecCalls: callers on one shared SpeechAnalyzer, each running            *)
(* analyze_speech statement by statement, interleaved in any order.        *)
(***************************************************************************)
\* analysis_results kept in one place for all calls (an attribute of the instance)
ResultsOwner_Shared(c) == 1

\* analysis_results is a local of analyze_speech (line 53): each call owns its own
ResultsOwner(c) == c

\* alignment_info kept in one place for all calls (an attribute of the instance)
AlignmentOwner_Shared(c) == 1

\* alignment_info is a local of phoneme_align (line 82): each call owns its own
AlignmentOwner(c) == c

InitCalls ==
    /\ NoSingle
    /\ NoCalls
    /\ NoDevice

\* a caller enters analyze_speech(transcription, original_prompt)
Call(c) ==
    /\ pc[c] = "idle"
    /\ ncalls < MaxCalls
    /\ \E t \in CallTranscripts, p \in CallPrompts :
            call' = [call EXCEPT ![c] =
                        [transcription |-> t, original_prompt |-> p, id |-> ncalls + 1]]
    /\ ncalls' = ncalls + 1
    /\ pc' = [pc EXCEPT ![c] = "l44"]
    /\ UNCHANGED <<singleVars, deviceVars, analyzer, analysis_results, alignment_info, returned>>

\* the entry of `returned` for the call of c returning report
Return(c, report) ==
    [id |-> call[c].id, transcription |-> call[c].transcription,
     original_prompt |-> call[c].original_prompt, report |-> report]

\* lines 44-53: the fixed report for an empty transcript, else analysis_results = {}
L44(c) ==
    /\ pc[c] = "l44"
    /\ IF call[c].transcription = <<>>
       THEN /\ returned' = returned \cup {Return(c, EmptyReport)}
            /\ pc' = [pc EXCEPT ![c] = "idle"]
            /\ call' = [call EXCEPT ![c] = NoCall]
            /\ UNCHANGED analysis_results
       ELSE /\ analysis_results' =
                    [analysis_results EXCEPT ![ResultsOwner(c)] = NewAnalysisResults]
            /\ pc' = [pc EXCEPT ![c] = "l56"]
            /\ UNCHANGED <<returned, call>>
    /\ UNCHANGED <<singleVars, deviceVars, analyzer, alignment_info, ncalls>>

\* lines 56-65: with a prompt enter generate_pronunciation_report, else estimate
L56(c) ==
    /\ pc[c] = "l56"
    /\ IF Truthy(call[c].original_prompt)
       THEN /\ pc' = [pc EXCEPT ![c] = "l82"]
            /\ UNCHANGED analysis_results
       ELSE /\ analysis_results' =
                    [analysis_results EXCEPT ![ResultsOwner(c)].pronunciation =
                        _estimate_pronunciation(call[c].transcription,
                                                call[c].original_prompt)]
            /\ pc' = [pc EXCEPT ![c] = "l68"]
    /\ UNCHANGED <<singleVars, deviceVars, analyzer, call, alignment_info, returned, ncalls>>

\* phoneme_align, lines 78-87: alignment_info is created
L82(c) ==
    /\ pc[c] = "l82"
    /\ alignment_info' = [alignment_info EXCEPT ![AlignmentOwner(c)] = NewAlignmentInfo]
    /\ pc' = [pc EXCEPT ![c] = "l91"]
    /\ UNCHANGED <<singleVars, deviceVars, analyzer, call, analysis_results, returned, ncalls>>

\* phoneme_align, lines 89-121: the loop fills alignment_info, then the accuracy
L91(c) ==
    /\ pc[c] = "l91"
    /\ alignment_info' = [alignment_info EXCEPT ![AlignmentOwner(c)] =
            AlignInto(@, call[c].transcription, call[c].original_prompt)]
    /\ pc' = [pc EXCEPT ![c] = "l307"]
    /\ UNCHANGED <<singleVars, deviceVars, analyzer, call, analysis_results, returned, ncalls>>

\* lines 307-320 and 62: the report from alignment_info, its overall score stored
L307(c) ==
    /\ pc[c] = "l307"
    /\ analysis_results' =
            [analysis_results EXCEPT ![ResultsOwner(c)].pronunciation =
                ReportWith(call[c].transcription, call[c].original_prompt,
                           alignment_info[AlignmentOwner(c)]).summary.overall_score]
    /\ alignment_info' = [alignment_info EXCEPT ![AlignmentOwner(c)] = NewAlignmentInfo]
    /\ pc' = [pc EXCEPT ![c] = "l68"]
    /\ UNCHANGED <<singleVars, deviceVars, analyzer, call, returned, ncalls>>

\* line 68
L68(c) ==
    /\ pc[c] = "l68"
    /\ analysis_results' =
            [analysis_results EXCEPT ![ResultsOwner(c)].articulation =
                _analyze_articulation(call[c].transcription, call[c].original_prompt)]
    /\ pc' = [pc EXCEPT ![c] = "l71"]
    /\ UNCHANGED <<singleVars, deviceVars, analyzer, call, alignment_info, returned, ncalls>>

\* line 71
L71(c) ==
    /\ pc[c] = "l71"
    /\ analysis_results' =
            [analysis_results EXCEPT ![ResultsOwner(c)].pace =
                _analyze_pace(call[c].transcription, call[c].original_prompt)]
    /\ pc' = [pc EXCEPT ![c] = "l74"]
    /\ UNCHANGED <<singleVars, deviceVars, analyzer, call, alignment_info, returned, ncalls>>

\* line 74
L74(c) ==
    /\ pc[c] = "l74"
    /\ analysis_results' =
            [analysis_results EXCEPT ![ResultsOwner(c)].clarity =
                _analyze_clarity(call[c].transcription, call[c].original_prompt)]
    /\ pc' = [pc EXCEPT ![c] = "l77"]
    /\ UNCHANGED <<singleVars, deviceVars, analyzer, call, alignment_info, returned, ncalls>>

\* line 77
L77(c) ==
    /\ pc[c] = "l77"
    /\ analysis_results' =
            [analysis_results EXCEPT ![ResultsOwner(c)].emotion =
                _analyze_emotion(call[c].transcription)]
    /\ pc' = [pc EXCEPT ![c] = "l79"]
    /\ UNCHANGED <<singleVars, deviceVars, analyzer, call, alignment_info, returned, ncalls>>

\* line 79: return analysis_results; the frame of the call is gone
L79(c) ==
    /\ pc[c] = "l79"
    /\ returned' = returned \cup {Return(c, analysis_results[ResultsOwner(c)])}
    /\ analysis_results' =
            [analysis_results EXCEPT ![ResultsOwner(c)] = NewAnalysisResults]
    /\ pc' = [pc EXCEPT ![c] = "idle"]
    /\ call' = [call EXCEPT ![c] = NoCall]
    /\ UNCHANGED <<singleVars, deviceVars, analyzer, alignment_info, ncalls>>

NextCalls ==
    \/ \E c \in Callers : Call(c)
    \/ \E c \in Callers : L44(c)
    \/ \E c \in Callers : L56(c)
    \/ \E c \in Callers : L82(c)
    \/ \E c \in Callers : L91(c)
    \/ \E c \in Callers : L307(c)
    \/ \E c \in Callers : L68(c)
    \/ \E c \in Callers : L71(c)
    \/ \E c \in Callers : L74(c)
    \/ \E c \in Callers : L77(c)
    \/ \E c \in Callers : L79(c)

SpecCalls == InitCalls /\ [][NextCalls]_vars

(***************************************************************************)
(* The claims.                                                             *)
(***************************************************************************)
\* a score that was produced and lies in [0, 10]
InRange(x) == ~Raised(x) /\ RLe(Num(0), x) /\ RLe(x, Num(10))

RECURSIVE Levenshtein(_, _)
\* the least number of single-character insertions, deletions and substitutions
\* that turn a into b
Levenshtein(a, b) ==
    IF a = <<>> THEN Len(b)
    ELSE IF b = <<>> THEN Len(a)
    ELSE IF Head(a) = Head(b) THEN Levenshtein(Tail(a), Tail(b))
    ELSE 1 + Min3(Levenshtein(Tail(a), b), Levenshtein(a, Tail(b)),
                  Levenshtein(Tail(a), Tail(b)))

\* C1: every numeric score lies in [0, 10]: pronunciation, articulation, pace
\* and clarity of analyze_speech, and overall, clarity, fluency and accuracy of
\* pronunciation_scoring, for every transcript and every prompt, absent or not.
C1_ScoresInRange ==
    /\ op = "analyze_speech" =>
            /\ InRange(result.pronunciation)
            /\ InRange(result.articulation)
            /\ InRange(result.pace)
            /\ InRange(result.clarity)
    /\ op = "pronunciation_scoring" =>
            /\ InRange(result.overall)
            /\ InRange(result.clarity)
            /\ InRange(result.fluency)
            /\ InRange(result.accuracy)

\* C1 witness: analyze_speech on a transcript of fillers without a prompt, where
\* the articulation penalties exceed the base score and the score is held at 0,
\* while the pace score is above 0.
C1_Witness ==
    /\ op = "analyze_speech"
    /\ args[2] = NoneStr
    /\ Split(args[1]) # <<>>
    /\ REq(result.articulation, Num(0))
    /\ RLt(Num(0), result.pace)

\* C2: analyze_speech (prompt absent or a string) and
\* generate_pronunciation_report (two strings) return a report and never raise:
\* no score of the report is a ZeroDivisionError, the emotion is a label and the
\* recommendations are there.
C2_Total ==
    /\ op = "analyze_speech" =>
            /\ ~Raised(result.pronunciation)
            /\ ~Raised(result.articulation)
            /\ ~Raised(result.pace)
            /\ ~Raised(result.clarity)
            /\ result.emotion \in ToSet(EmotionLabels) \cup {"positive", "negative", "neutral"}
    /\ op = "generate_pronunciation_report" =>
            /\ ~Raised(result.summary.overall_score)
            /\ ~Raised(result.summary.clarity_score)
            /\ ~Raised(result.summary.fluency_score)
            /\ ~Raised(result.summary.accuracy_score)
            /\ ~Raised(result.alignment_details.accuracy_score)
            /\ \A i \in 1..Len(result.alignment_details.word_matches) :
                    ~Raised(result.alignment_details.word_matches[i].similarity)
            /\ result.recommendations # <<>>

\* C2 witness: a report for a transcript with words and a prompt without any,
\* where the accuracy would divide by the number of prompt words.
C2_Witness ==
    /\ op = "generate_pronunciation_report"
    /\ Split(args[1]) # <<>>
    /\ Split(args[2]) = <<>>
    /\ result.summary.overall_score = Rat(3, 1)

\* C3: a transcript without words gets the fixed report (all scores 0, emotion
\* neutral) from analyze_speech, with or without a prompt.
C3_NoWordsFixedReport ==
    (op = "analyze_speech" /\ Split(args[1]) = <<>>) => result = EmptyReport

\* C4: two calls of analyze_speech with the same transcript and the same prompt
\* return identical reports, whatever calls ran before, between or during them.
C4_Deterministic ==
    \A e \in returned : \A f \in returned :
        (e.transcription = f.transcription /\ e.original_prompt = f.original_prompt)
            => e.report = f.report

\* C4 witness: two calls with the same non-empty transcript and the same prompt
\* have returned, and a call with other arguments was made between them.
C4_Witness ==
    \E e \in returned : \E f \in returned : \E g \in returned :
        /\ e.id < g.id /\ g.id < f.id
        /\ e.transcription = f.transcription /\ e.original_prompt = f.original_prompt
        /\ e.transcription # <<>>
        /\ Truthy(e.original_prompt)
        /\ g.transcription # e.transcription

\* C5: no step of the analysis writes a field of the shared analyzer, and under
\* every interleaving each call returns the report analyze_speech gives for its
\* arguments when run alone, as one atomic call.
C5_NoSharedState ==
    [][/\ analyzer' = analyzer
       /\ \A e \in returned' \ returned :
            e.report = analyze_speech(e.transcription, e.original_prompt)]_vars

\* C5 witness: a call that started later has returned while an earlier call of
\* the other caller is still between its statements.
C5_Witness ==
    \E e \in returned : \E c \in Callers :
        /\ pc[c] \in {"l71", "l74"}
        /\ call[c].id < e.id
        /\ e.transcription # <<>>
        /\ e.original_prompt # call[c].original_prompt

\* the pronunciation formula of _estimate_pronunciation's prompt branch
ClaimedPronunciation(transcription, original_prompt) ==
    LET similarity == SequenceRatio(Lower(original_prompt), Lower(transcription))
        reference_words == Len(Split(original_prompt))
        attempt_ratio ==
            IF reference_words = 0 THEN Num(1)
            ELSE RMin(Num(1), Rat(Len(Split(transcription)), reference_words))
        score == RAdd(RMul(similarity, Num(7)), RMul(attempt_ratio, Num(3)))
        floored ==
            IF RLt(Rat(1, 2), attempt_ratio) /\ RLt(Rat(2, 5), similarity)
            THEN RMax(score, Num(5)) ELSE score
    IN RMax(Num(0), RMin(Num(10), floored))

\* the comprehensive blended score: clarity*0.4 + fluency*0.3 + accuracy*0.3,
\* rounded to 2 decimals, the accuracy being the share of the prompt words that
\* the alignment matched, times 10
BlendedPronunciation(transcription, original_prompt) ==
    LET matched ==
            CountIf(phoneme_align(transcription, original_prompt).word_matches,
                    LAMBDA m : m.match)
        reference_words == Len(Split(original_prompt))
        accuracy == IF reference_words = 0 THEN Num(0) ELSE Rat(10 * matched, reference_words)
    IN Round2(RAdd(RAdd(RMul(_calculate_clarity_score(transcription, original_prompt),
                             Rat(2, 5)),
                        RMul(_calculate_fluency_score(transcription), Rat(3, 10))),
                   RMul(accuracy, Rat(3, 10))))

\* C6 as stated: with a prompt present, the pronunciation of analyze_speech is
\* (similarity*0.7 + attempt_ratio*0.3)*10, floored at 5.0 for a reasonable
\* attempt and clamped (to 2 decimals or not), never the blended score.
C6_PronunciationIsEstimate ==
    (op = "analyze_speech" /\ args[1] # <<>> /\ args[2] # NoneStr) =>
        \/ REq(result.pronunciation, ClaimedPronunciation(args[1], args[2]))
        \/ REq(result.pronunciation, Round2(ClaimedPronunciation(args[1], args[2])))

\* C6 amended: with a non-empty prompt (and a non-empty transcript) the
\* pronunciation of analyze_speech is the comprehensive blended score, the
\* overall_score of generate_pronunciation_report.
C6_PronunciationIsBlended ==
    (op = "analyze_speech" /\ args[1] # <<>> /\ Truthy(args[2])) =>
        result.pronunciation = BlendedPronunciation(args[1], args[2])

\* C6 witness: analyze_speech with a prompt, where the blended score it returns
\* differs from the similarity formula.
C6_Witness ==
    /\ op = "analyze_speech"
    /\ args[1] # <<>>
    /\ Truthy(args[2])
    /\ result.pronunciation = BlendedPronunciation(args[1], args[2])
    /\ ~REq(result.pronunciation, Round2(ClaimedPronunciation(args[1], args[2])))

\* the words of a text are pairwise distinct as written, and none is one of
\* the fillers of the comprehensive fluency score
PlainWords(text) ==
    LET words == Split(text)
    IN /\ words # <<>>
       /\ \A i \in 1..Len(words) : \A j \in 1..Len(words) : words[i] = words[j] => i = j
       /\ \A i \in 1..Len(words) : Lower(words[i]) \notin ReportFillers

\* C7 as stated: for every non-empty prompt, a transcript identical to the
\* prompt gets the pronunciation score 10.0.
C7_IdenticalScoresTen ==
    (op = "analyze_speech" /\ args[2] # NoneStr /\ args[2] # <<>> /\ args[1] = args[2]) =>
        REq(result.pronunciation, Num(10))

\* C7 amended: a transcript identical to the prompt gets the pronunciation
\* score 10.0 when the prompt has at least one word, its words are pairwise
\* distinct and none of them is a filler of the comprehensive fluency score.
C7_IdenticalPlainScoresTen ==
    (op = "analyze_speech" /\ args[2] # NoneStr /\ args[1] = args[2] /\ PlainWords(args[2])) =>
        REq(result.pronunciation, Num(10))

\* C7 witness: a two-word prompt of distinct words that are no fillers, read
\* back exactly, scored 10.
C7_Witness ==
    /\ op = "analyze_speech"
    /\ args[2] # NoneStr
    /\ args[1] = args[2]
    /\ PlainWords(args[2])
    /\ Len(Split(args[2])) = 2
    /\ REq(result.pronunciation, Num(10))

\* C8: the accuracy_score of phoneme_align is the number of word_matches that
\* match divided by the number of prompt words, 0 when the prompt has no words,
\* and always within [0, 1].
C8_AccuracyIsMatchedShare ==
    op = "phoneme_align" =>
        LET reference_words == Len(Split(args[2]))
            matched == CountIf(result.word_matches, LAMBDA m : m.match)
        IN /\ ~Raised(result.accuracy_score)
           /\ reference_words = 0 => REq(result.accuracy_score, Num(0))
           /\ reference_words > 0 => REq(result.accuracy_score, Rat(matched, reference_words))
           /\ RLe(Num(0), result.accuracy_score)
           /\ RLe(result.accuracy_score, Num(1))

\* C8 witness: an alignment of fewer transcript words than prompt words with a
\* matched pair, so that the accuracy is strictly between 0 and 1.
C8_Witness ==
    /\ op = "phoneme_align"
    /\ Len(Split(args[1])) < Len(Split(args[2]))
    /\ RLt(Num(0), result.accuracy_score)
    /\ RLt(result.accuracy_score, Num(1))

\* a word case-folded and without its punctuation
Folded(word) == SelectSeq(Lower(word), LAMBDA c : c \notin Punctuation)

\* 1 - distance / longer length; 1 for two empty words, 0 for one empty word
FoldedSimilarity(a, b) ==
    IF a = <<>> /\ b = <<>> THEN Num(1)
    ELSE IF a = <<>> \/ b = <<>> THEN Num(0)
    ELSE Rat(MaxInt(Len(a), Len(b)) - Levenshtein(a, b), MaxInt(Len(a), Len(b)))

\* C9: phoneme_align has min(prompt words, transcript words) word_matches, the
\* i-th for the i-th prompt word and the i-th transcript word, its similarity
\* that of the two words case-folded and without punctuation, its match flag
\* true exactly when the similarity is above 0.7; none when a side has no words.
C9_WordMatches ==
    op = "phoneme_align" =>
        LET reference == Split(args[2])
            spoken == Split(args[1])
            matches == result.word_matches
        IN /\ Len(matches) = MinInt(Len(reference), Len(spoken))
           /\ (reference = <<>> \/ spoken = <<>>) => matches = <<>>
           /\ \A i \in 1..Len(matches) :
                /\ matches[i].original = Lower(reference[i])
                /\ matches[i].transcribed = Lower(spoken[i])
                /\ REq(matches[i].similarity,
                       FoldedSimilarity(Folded(reference[i]), Folded(spoken[i])))
                /\ matches[i].match <=> RLt(Rat(7, 10), matches[i].similarity)

\* C9 witness: two aligned pairs, one matching although the transcript word is
\* capitalised and punctuated, one not matching.
C9_Witness ==
    /\ op = "phoneme_align"
    /\ Len(result.word_matches) = 2
    /\ \E i \in 1..2 :
            /\ result.word_matches[i].match
            /\ Split(args[1])[i] = W_CatDot
    /\ \E i \in 1..2 : ~result.word_matches[i].match

\* C10: _edit_distance(a, b) is the Levenshtein distance of a and b, compared
\* case-sensitively; between "kitten" and "sitting" it is 3.
C10_EditDistanceIsLevenshtein ==
    op = "_edit_distance" =>
        /\ result = Levenshtein(args[1], args[2])
        /\ args = <<W_kitten, W_sitting>> => result = 3

\* C10 witness: the distance of "kitten" and "sitting" came out as 3.
C10_Witness ==
    /\ op = "_edit_distance"
    /\ args = <<W_kitten, W_sitting>>
    /\ result = 3

\* the words a path from one drawn word to another is led through
MiddleWords == {w \in Words : Len(w) < MaxWordLen}

\* C11: _edit_distance is a metric on the words: the distance from a to b is
\* the distance from b to a, the distance from a word to itself is 0, and the
\* distance from a to b is at most the distance from a to any word c plus the
\* distance from c to b.
C11_EditDistanceIsMetric ==
    op = "_edit_distance" =>
        /\ result = _edit_distance(args[2], args[1])
        /\ args[1] = args[2] => result = 0
        /\ \A c \in MiddleWords :
                result <= _edit_distance(args[1], c) + _edit_distance(c, args[2])

\* C11 witness: the distance of two different words of different lengths was
\* computed, and a third word lies strictly between them on a shortest path.
C11_Witness ==
    /\ op = "_edit_distance"
    /\ Len(args[1]) < Len(args[2])
    /\ result > 1
    /\ \E c \in MiddleWords :
            /\ c # args[1] /\ c # args[2]
            /\ result = _edit_distance(args[1], c) + _edit_distance(c, args[2])

\* C12: _word_similarity(a, b) is 1 for two empty words, 0 when exactly one is
\* empty, and otherwise 1 - _edit_distance(a, b) / max(len(a), len(b)); it lies
\* in [0, 1] and is 1 for two equal words.
C12_WordSimilarity ==
    op = "_word_similarity" =>
        LET a == args[1]
            b == args[2]
        IN /\ (a = <<>> /\ b = <<>>) => REq(result, Num(1))
           /\ ((a = <<>>) # (b = <<>>)) => REq(result, Num(0))
           /\ (a # <<>> /\ b # <<>>) =>
                REq(result, RSub(Num(1), Rat(_edit_distance(a, b), MaxInt(Len(a), Len(b)))))
           /\ RLe(Num(0), result) /\ RLe(result, Num(1))
           /\ a = b => REq(result, Num(1))

\* C12 witness: two non-empty words of different lengths with a similarity
\* strictly between 0 and 1.
C12_Witness ==
    /\ op = "_word_similarity"
    /\ args[1] # <<>> /\ args[2] # <<>>
    /\ Len(args[1]) # Len(args[2])
    /\ RLt(Num(0), result) /\ RLt(result, Num(1))

\* the words of a transcript, case-folded
FoldedWords(text) == Split(Lower(text))

\* the number of words of a transcript that are keywords of an emotion label
LabelCount(text, label) ==
    LET words == FoldedWords(text)
        keywords == EmotionKeywords[label]
    IN Cardinality({i \in 1..Len(words) : \E k \in 1..Len(keywords) : keywords[k] = words[i]})

\* the place of a label in the order joy, sadness, anger, fear, surprise, disgust
LabelIndex(label) == CHOOSE i \in 1..Len(EmotionLabels) : EmotionLabels[i] = label

\* no word of the transcript is a keyword of any of the six emotions
NoEmotionWord(text) == \A i \in 1..Len(EmotionLabels) : LabelCount(text, EmotionLabels[i]) = 0

\* C13: when a word of the transcript is a keyword of one of the six emotions,
\* _analyze_emotion returns one of the six labels, no label has more keyword
\* words than the returned one, and every label before it in the order joy,
\* sadness, anger, fear, surprise, disgust has fewer.
C13_DominantEmotion ==
    (op = "_analyze_emotion" /\ ~NoEmotionWord(args[1])) =>
        /\ result \in ToSet(EmotionLabels)
        /\ \A i \in 1..Len(EmotionLabels) :
                LabelCount(args[1], EmotionLabels[i]) <= LabelCount(args[1], result)
        /\ \A i \in 1..(LabelIndex(result) - 1) :
                LabelCount(args[1], EmotionLabels[i]) < LabelCount(args[1], result)

\* C13 witness: "angry sad": sadness and anger have one keyword word each, the
\* anger word comes first in the transcript, and sadness is returned.
C13_Witness ==
    /\ op = "_analyze_emotion"
    /\ args[1] = Join(<<W_angry, W_sad>>)
    /\ LabelCount(args[1], "sadness") = 1
    /\ LabelCount(args[1], "anger") = 1
    /\ result = "sadness"

\* the number of words of a transcript that are in a list of indicators
IndicatorCount(text, indicators) ==
    LET words == FoldedWords(text)
    IN Cardinality({i \in 1..Len(words) : \E k \in 1..Len(indicators) : indicators[k] = words[i]})

\* C14: when no word of the transcript is a keyword of the six emotions,
\* _analyze_emotion returns positive when the positive indicators outnumber the
\* negative ones, negative when the negative outnumber the positive, and neutral
\* when the two counts are equal; and it returns one of these three labels only
\* when no word is an emotion keyword.
C14_SentimentFallback ==
    op = "_analyze_emotion" =>
        LET pos_count == IndicatorCount(args[1], PositiveIndicators)
            neg_count == IndicatorCount(args[1], NegativeIndicators)
        IN /\ NoEmotionWord(args[1]) =>
                result = IF pos_count > neg_count THEN "positive"
                         ELSE IF neg_count > pos_count THEN "negative"
                         ELSE "neutral"
           /\ result \in {"positive", "negative", "neutral"} => NoEmotionWord(args[1])

\* C14 witness: one positive and one negative indicator and no emotion keyword:
\* the counts are equal and not zero, and the label is neutral.
C14_Witness ==
    /\ op = "_analyze_emotion"
    /\ NoEmotionWord(args[1])
    /\ IndicatorCount(args[1], PositiveIndicators) = 1
    /\ IndicatorCount(args[1], NegativeIndicators) = 1
    /\ result = "neutral"

\* C15: the six emotion keyword lists are pairwise disjoint: no word of an
\* analysed transcript adds to the count of more than one emotion label.
C15_KeywordListsDisjoint ==
    op = "_analyze_emotion" =>
        LET words == FoldedWords(args[1])
        IN \A i \in 1..Len(words) :
                Cardinality({label \in ToSet(EmotionLabels) :
                                words[i] \in ToSet(EmotionKeywords[label])}) <= 1

\* the primary fluency formula with the penalty coefficients rep and fill:
\* max(0, 10 - repetition_ratio*rep - filler_ratio*fill), the repetition ratio
\* being the share of positions whose word equals the next word and the filler
\* ratio the share of words in the fixed filler set
FluencyFormula(text, rep, fill) ==
    LET words == FoldedWords(text)
        n == Len(words)
        repeated == Cardinality({i \in 1..(n - 1) : words[i] = words[i + 1]})
        fillers == Cardinality({i \in 1..n : words[i] \in FluencyFillers})
    IN RMax(Num(0), RSub(RSub(Num(10), Rat(repeated * rep, n)), Rat(fillers * fill, n)))

\* the claimed value of _analyze_fluency: the formula with 20 and 15, times 0.7
\* for fewer than 5 words
ClaimedFluency(text) ==
    IF Len(FoldedWords(text)) < 5 THEN RMul(FluencyFormula(text, 20, 15), Rat(7, 10))
    ELSE FluencyFormula(text, 20, 15)

\* the penalties of the claimed formula reach 10
PenaltiesReachTen(text) == REq(FluencyFormula(text, 20, 15), Num(0))

\* C16 as stated: for a transcript of n >= 1 words _analyze_fluency returns
\* max(0, 10 - repetition_ratio*20 - filler_ratio*15), times 0.7 when n < 5,
\* never negative, never above 10, and 0 when the penalties reach 10.
C16_FluencyIsFormula ==
    (op = "_analyze_fluency" /\ Len(FoldedWords(args[1])) >= 1) =>
        /\ REq(result, ClaimedFluency(args[1]))
        /\ InRange(result)
        /\ PenaltiesReachTen(args[1]) => REq(result, Num(0))

\* C16 amended: _analyze_fluency returns that value rounded to 2 decimals,
\* never negative, never above 10, and 0 when the penalties reach 10.
C16_FluencyIsRoundedFormula ==
    (op = "_analyze_fluency" /\ Len(FoldedWords(args[1])) >= 1) =>
        /\ result = Round2(ClaimedFluency(args[1]))
        /\ InRange(result)
        /\ PenaltiesReachTen(args[1]) => REq(result, Num(0))

\* C16 witness: a transcript of fewer than 5 words with a repeated word, where
\* the reduced score has more than 2 decimals and its rounding is returned.
C16_Witness ==
    /\ op = "_analyze_fluency"
    /\ Len(FoldedWords(args[1])) \in 1..4
    /\ ~REq(result, ClaimedFluency(args[1]))
    /\ result = Round2(ClaimedFluency(args[1]))
    /\ RLt(Num(0), result)

\* C17 as stated: for a transcript with words _calculate_fluency_score returns
\* max(0, 10 - repetition_ratio*10 - filler_ratio*8), with the repetition
\* ratio and the filler ratio of the primary fluency function.
C17_SecondFluencyIsPrimaryFormula ==
    (op = "_calculate_fluency_score" /\ Split(args[1]) # <<>>) =>
        REq(result, FluencyFormula(args[1], 10, 8))

\* the nine fillers of the comprehensive fluency score
NineFillers ==
    { <<"u", "m">>, <<"u", "h">>, <<"e", "r">>, <<"l", "i", "k", "e">>, <<"s", "o">>,
      <<"w", "e", "l", "l">>, <<"y", "o", "u", " ", "k", "n", "o", "w">>,
      <<"a", "c", "t", "u", "a", "l", "l", "y">>,
      <<"b", "a", "s", "i", "c", "a", "l", "l", "y">> }

\* 10 - min(3, (1 - distinct/n)*10) - min(2, (fillers/n)*8): distinct the number
\* of different words as written, fillers the number of words that case-folded
\* are among the nine fillers
CappedFluency(text) ==
    LET words == Split(text)
        n == Len(words)
        distinct == Cardinality({words[i] : i \in 1..n})
        fillers == Cardinality({i \in 1..n : Lower(words[i]) \in NineFillers})
    IN RSub(RSub(Num(10), RMin(Num(3), Rat(10 * (n - distinct), n))),
            RMin(Num(2), Rat(8 * fillers, n)))

\* C17 amended: for a transcript with words _calculate_fluency_score returns
\* 10 less a repetition penalty of at most 3 and a filler penalty of at most 2:
\* 10 - min(3, repetition_ratio*10) - min(2, filler_ratio*8), where the
\* repetition ratio is 1 - (different words as written)/(words) and the filler
\* ratio counts the words that are among nine fillers.
C17_SecondFluencyIsCappedFormula ==
    (op = "_calculate_fluency_score" /\ Split(args[1]) # <<>>) =>
        /\ result = CappedFluency(args[1])
        /\ RLe(Num(5), result)

\* C17 witness: a word repeated with another word in between: no two adjacent
\* words are equal, and yet the score carries a repetition penalty.
C17_Witness ==
    /\ op = "_calculate_fluency_score"
    /\ Len(Split(args[1])) = 3
    /\ Split(args[1])[1] = Split(args[1])[3]
    /\ Split(args[1])[1] # Split(args[1])[2]
    /\ Lower(Split(args[1])[1]) # Lower(Split(args[1])[2])
    /\ result = CappedFluency(args[1])
    /\ ~REq(result, FluencyFormula(args[1], 10, 8))

\* the score claimed for a transcript of w words without a reference
WordCountBucket(w) ==
    IF w < 3 THEN Num(2)
    ELSE IF w < 5 THEN Num(4)
    ELSE IF w < 10 THEN Num(6)
    ELSE RMin(Num(9), Rat(60 + 3 * (w - 10), 10))

\* C18: without a reference the pronunciation of a non-empty transcript is a
\* function of its word count w alone: 2 for w < 3, 4 for 3 <= w < 5, 6 for
\* 5 <= w < 10, min(9, 6 + (w - 10)*0.3) from 10 on; it is at most 9 and not
\* below the score of the transcript with one word less.
C18_PronunciationByWordCount ==
    (op = "analyze_speech" /\ args[2] = NoneStr /\ args[1] # <<>>) =>
        LET words == Split(args[1])
        IN /\ result.pronunciation = WordCountBucket(Len(words))
           /\ RLe(result.pronunciation, Num(9))
           /\ words # <<>> =>
                RLe(_estimate_pronunciation(Join(Tail(words)), NoneStr), result.pronunciation)

\* C18 witness: a transcript of more than 20 words without a reference, scored 9.
C18_Witness ==
    /\ op = "analyze_speech"
    /\ args[2] = NoneStr
    /\ Len(Split(args[1])) > 20
    /\ result.pronunciation = Num(9)

\* sequence similarity of the reference and the transcript, case-folded
ClaimedSimilarity(text, reference) == SequenceRatio(Lower(reference), Lower(text))

\* min(1.0, transcript word count / reference word count), 1.0 when the
\* reference has no words
ClaimedAttemptRatio(text, reference) ==
    IF Len(Split(reference)) = 0 THEN Num(1)
    ELSE RMin(Num(1), Rat(Len(Split(text)), Len(Split(reference))))

\* (similarity*ws + attempt_ratio*wa)*10 with the weights in tenths, replaced
\* by max(score, 5.0) exactly when attempt_ratio > 0.5 and similarity > 0.4
FlooredAtFive(text, reference, ws, wa) ==
    LET similarity == ClaimedSimilarity(text, reference)
        attempt_ratio == ClaimedAttemptRatio(text, reference)
        score == RAdd(RMul(similarity, Num(ws)), RMul(attempt_ratio, Num(wa)))
    IN IF RLt(Rat(1, 2), attempt_ratio) /\ RLt(Rat(2, 5), similarity)
       THEN RMax(score, Num(5)) ELSE score

\* the transcript has a sentence: a character other than . ! ? and whitespace
HasSentence(text) == \E i \in 1..Len(text) : text[i] \notin SentenceEnd \cup Whitespace

FlooredPace(text, reference) ==
    LET similarity == ClaimedSimilarity(text, reference)
        attempt_ratio == ClaimedAttemptRatio(text, reference)
        score == RAdd(RMul(attempt_ratio, Num(6)), RMul(similarity, Num(4)))
    IN IF RLt(Rat(3, 10), attempt_ratio) THEN RMax(score, Num(4)) ELSE score

\* C20 as stated: for every transcript and a reference that is there, pace is
\* (attempt_ratio*0.6 + similarity*0.4)*10, and at least 4.0 whenever
\* attempt_ratio > 0.3.
C20_PaceFormula ==
    (op = "_analyze_pace" /\ Truthy(args[2])) =>
        /\ REq(result, FlooredPace(args[1], args[2]))
        /\ RLt(Rat(3, 10), ClaimedAttemptRatio(args[1], args[2])) => RLe(Num(4), result)

\* C20 amended: pace is that value rounded to 2 decimals, and at least 4.0
\* whenever attempt_ratio > 0.3, for every transcript and non-empty reference.
C20_PaceRounded ==
    (op = "_analyze_pace" /\ Truthy(args[2])) =>
        /\ result = Round2(FlooredPace(args[1], args[2]))
        /\ RLt(Rat(3, 10), ClaimedAttemptRatio(args[1], args[2])) => RLe(Num(4), result)

\* C20 witness: a transcript with a similarity whose weighted value has more
\* than 2 decimals: the pace returned is that value rounded.
C20_Witness ==
    /\ op = "_analyze_pace"
    /\ Truthy(args[2])
    /\ Split(args[1]) # <<>>
    /\ ~REq(result, FlooredPace(args[1], args[2]))
    /\ result = Round2(FlooredPace(args[1], args[2]))

\* the blend of the three component scores, before rounding
WeightedOverall(clarity, fluency, accuracy) ==
    RAdd(RAdd(RMul(clarity, Rat(4, 10)), RMul(fluency, Rat(3, 10))), RMul(accuracy, Rat(3, 10)))

\* the overall score C21 gives for a transcript and a reference
ClaimedOverall(transcription, original_text) ==
    Round2(WeightedOverall(_calculate_clarity_score(transcription, original_text),
                           _calculate_fluency_score(transcription),
                           RMul(phoneme_align(transcription, original_text).accuracy_score,
                                Num(10))))

\* C21: the overall value of pronunciation_scoring is clarity*0.4 + fluency*0.3
\* + accuracy*0.3 rounded to 2 decimals, the accuracy being the alignment
\* accuracy_score times 10 and the clarity and fluency the comprehensive scores
\* (not their rounded values); generate_pronunciation_report reports the same
\* value as overall_score.
C21_OverallIsWeightedBlend ==
    /\ op = "pronunciation_scoring" => result.overall = ClaimedOverall(args[1], args[2])
    /\ op = "generate_pronunciation_report" =>
            result.summary.overall_score = ClaimedOverall(args[1], args[2])

\* C21 witness: a report whose overall score differs from the blend of its own
\* rounded component scores, and is neither 0 nor 10.
C21_Witness ==
    /\ op = "generate_pronunciation_report"
    /\ RLt(Num(0), result.summary.overall_score)
    /\ RLt(result.summary.overall_score, Num(10))
    /\ result.summary.overall_score #
            Round2(WeightedOverall(result.summary.clarity_score, result.summary.fluency_score,
                                   result.summary.accuracy_score))

\* the entries a report may recommend, in the order C22 gives them, each with
\* the condition under which it applies
Suggestions(report) ==
    << [text |-> <<"Focus on clearer pronunciation of individual words.">>,
        applies |-> RLt(report.summary.clarity_score, Num(6))],
       [text |-> <<"Work on reducing fillers and speech hesitations.">>,
        applies |-> RLt(report.summary.fluency_score, Num(6))],
       [text |-> <<"Practice matching the original text more closely.">>,
        applies |-> RLt(report.summary.accuracy_score, Num(6))],
       [text |-> <<"Address ", Len(report.alignment_details.phoneme_errors),
                   " phoneme-level errors detected.">>,
        applies |-> Len(report.alignment_details.phoneme_errors) >= 1] >>

PositiveReinforcement == <<"Pronunciation looks good! Keep practicing to maintain your skills.">>

\* C22: the recommendations of a pronunciation report are never empty; they
\* are, in this order, the suggestion for each of clarity, fluency and accuracy
\* that is below 6 and the count message when there is a phoneme error; the
\* positive message is there exactly when none of these applies, and alone.
C22_Recommendations ==
    op = "generate_pronunciation_report" =>
        LET applying == SelectSeq(Suggestions(result), LAMBDA s : s.applies)
            recommendations == result.recommendations
        IN /\ recommendations # <<>>
           /\ applying # <<>> =>
                /\ Len(recommendations) = Len(applying)
                /\ \A i \in 1..Len(applying) : recommendations[i] = applying[i].text
           /\ applying = <<>> <=>
                \E i \in 1..Len(recommendations) : recommendations[i] = PositiveReinforcement
           /\ applying = <<>> => recommendations = <<PositiveReinforcement>>

\* C22 witness: a report with the accuracy suggestion followed by the count
\* message, the clarity and the fluency being 6 or more.
C22_Witness ==
    /\ op = "generate_pronunciation_report"
    /\ Len(result.recommendations) = 2
    /\ result.recommendations[1] = <<"Practice matching the original text more closely.">>
    /\ result.recommendations[2][1] = "Address "
    /\ result.recommendations[2][2] = Len(result.alignment_details.phoneme_errors)

\* the kind and the index of each error C23 gives for a reference word r and a
\* transcript word t: the substitutions, then the deletions or the insertions
ClaimedErrors(r, t) ==
    LET shorter == MinInt(Len(r), Len(t))
        differing == SelectSeq([k \in 1..shorter |-> k - 1], LAMBDA i : r[i + 1] # t[i + 1])
        substitutions == [k \in 1..Len(differing) |->
                            [position |-> differing[k], type |-> "substitution"]]
        deletions == [k \in 1..(Len(r) - Len(t)) |->
                            [position |-> Len(t) + k - 1, type |-> "deletion"]]
        insertions == [k \in 1..(Len(t) - Len(r)) |->
                            [position |-> Len(r) + k - 1, type |-> "insertion"]]
    IN substitutions \o (IF Len(r) > Len(t) THEN deletions ELSE <<>>)
                     \o (IF Len(t) > Len(r) THEN insertions ELSE <<>>)

\* the kind and the index of each error of a list of phoneme errors
KindAndIndex(errors) ==
    [k \in 1..Len(errors) |-> [position |-> errors[k].position, type |-> errors[k].type]]

RECURSIVE ClaimedErrorsOfPairs(_, _)
\* the errors C23 gives for the aligned pairs from the i-th on: those of the
\* pairs whose similarity is at most 0.7, pair after pair
ClaimedErrorsOfPairs(word_matches, i) ==
    IF i > Len(word_matches) THEN <<>>
    ELSE (IF RLe(word_matches[i].similarity, Rat(7, 10))
          THEN ClaimedErrors(Folded(word_matches[i].original),
                             Folded(word_matches[i].transcribed))
          ELSE <<>>) \o ClaimedErrorsOfPairs(word_matches, i + 1)

\* C23: phoneme errors come only from the aligned pairs whose similarity is at
\* most 0.7; for such a pair of preprocessed words they are one substitution
\* at each index below the shorter length where the characters differ, then
\* one deletion per further index of a longer reference word or one insertion
\* per further index of a longer transcript word, never both.
C23_PhonemeErrors ==
    op = "phoneme_align" =>
        /\ KindAndIndex(result.phoneme_errors) = ClaimedErrorsOfPairs(result.word_matches, 1)
        /\ \A k \in 1..Len(result.details) :
            LET detail == result.details[k]
                pair == result.word_matches[detail.position + 1]
            IN /\ RLe(pair.similarity, Rat(7, 10))
               /\ KindAndIndex(detail.errors) =
                    ClaimedErrors(Folded(pair.original), Folded(pair.transcribed))
               /\ ~ /\ \E e \in 1..Len(detail.errors) : detail.errors[e].type = "deletion"
                    /\ \E e \in 1..Len(detail.errors) : detail.errors[e].type = "insertion"

\* C23 witness: a pair whose transcript word carries punctuation and, once
\* preprocessed, is longer than the reference word: substitutions followed by an
\* insertion, none for the punctuation.
C23_Witness ==
    /\ op = "phoneme_align"
    /\ \E k \in 1..Len(result.details) :
        LET detail == result.details[k]
        IN /\ Folded(detail.transcribed_word) # detail.transcribed_word
           /\ Len(detail.errors) >= 2
           /\ detail.errors[1].type = "substitution"
           /\ detail.errors[Len(detail.errors)].type = "insertion"

\* C24: when a transcript has at least as many words as the reference,
\* phoneme_align on that transcript followed by further words returns the same
\* word_matches, phoneme_errors, details and accuracy_score.
C24_TrailingWordsIgnored ==
    [][(/\ op = "phoneme_align"
        /\ op' = "phoneme_align_longer"
        /\ Len(Split(args[1])) >= Len(Split(args[2]))) =>
            /\ result'.word_matches = result.word_matches
            /\ result'.phoneme_errors = result.phoneme_errors
            /\ result'.details = result.details
            /\ result'.accuracy_score = result.accuracy_score]_vars

\* C24 witness: an alignment of a lengthened transcript that has more words
\* than the two-word reference, with a matched pair and a pair with errors.
C24_Witness ==
    /\ op = "phoneme_align_longer"
    /\ Len(Split(args[2])) = 2
    /\ Len(Split(args[1])) > 2
    /\ result.details # <<>>
    /\ RLt(Num(0), result.accuracy_score)

\* |A \cap B| / |A \cup B|, 0 when both sets are empty
Jaccard(A, B) ==
    IF A \cup B = {} THEN Num(0)
    ELSE Rat(Cardinality(A \cap B), Cardinality(A \cup B))

\* the share of the reference words that the transcript has at the same place
PositionalShare(transcription, original_text) ==
    LET spoken == Split(Lower(transcription))
        reference == Split(Lower(original_text))
        same == {i \in 1..MinInt(Len(spoken), Len(reference)) : spoken[i] = reference[i]}
    IN IF reference = <<>> THEN Num(0) ELSE Rat(Cardinality(same), Len(reference))

\* C25: the overlap term of the comprehensive clarity score is the Jaccard
\* intersection-over-union of the transcript word set and the reference word
\* set, 0 when both are empty: the score is that term weighted 0.6 plus the
\* positional share weighted 0.4, on the scale of 10.
C25_OverlapIsJaccard ==
    op = "_calculate_clarity_score" =>
        LET A == ToSet(Split(Lower(args[1])))
            B == ToSet(Split(Lower(args[2])))
        IN REq(result,
               RMin(Num(10),
                    RMul(RAdd(RMul(Jaccard(A, B), Rat(6, 10)),
                              RMul(PositionalShare(args[1], args[2]), Rat(4, 10))),
                         Num(10))))

\* the outcome C26 gives for a transcript that is not a string
TypeError == [raised |-> "TypeError"]

\* C26: analyze_speech called with a transcript that is not a string (null, a
\* number) raises a type error and returns no report; called with a string
\* transcript and a string or absent reference it returns a report.
C26_OnlyTypeErrors ==
    op = "analyze_speech" =>
        /\ args[1].type # "str" => result = TypeError
        /\ args[1].type = "str" => "raised" \notin DOMAIN result

\* C27: in a phoneme_align result every aligned pair that is not a match has
\* exactly one details entry, with at least one phoneme error; the matched
\* pairs and the details entries add up to the word_matches; phoneme_errors is
\* empty exactly when every aligned pair is a match.
C27_DetailsPerMismatch ==
    op = "phoneme_align" =>
        LET pairs == result.word_matches
            details == result.details
            matched == {i \in 1..Len(pairs) : pairs[i].match}
        IN /\ \A i \in 1..Len(pairs) :
                LET entries == {k \in 1..Len(details) : details[k].position = i - 1}
                IN IF pairs[i].match
                   THEN entries = {}
                   ELSE /\ Cardinality(entries) = 1
                        /\ \A k \in entries : Len(details[k].errors) >= 1
           /\ Cardinality(matched) + Len(details) = Len(pairs)
           /\ result.phoneme_errors = <<>> <=> \A i \in 1..Len(pairs) : pairs[i].match

\* C27 witness: two aligned pairs, one a match and one not, the latter with
\* one details entry whose errors are all deletions.
C27_Witness ==
    /\ op = "phoneme_align"
    /\ Len(result.word_matches) = 2
    /\ \E i \in 1..2 : result.word_matches[i].match
    /\ Len(result.details) = 1
    /\ result.phoneme_errors # <<>>
    /\ \A e \in 1..Len(result.phoneme_errors) : result.phoneme_errors[e].type = "deletion"

\* what C28 says of a call short of its termination, an exception's message
\* counting as a timeout when HasTimeout holds of it: at most max_retries + 1
\* attempts; the k-th retry on the first floor(n / 2^k) bytes, never on an
\* empty buffer; a retry only after a timeout; nothing tried after a success,
\* whose result is the one returned
RetryDiscipline(HasTimeout(_)) ==
    LET attempts == retry.attempts
        n == Len(retry.audio_bytes)
    IN /\ Len(attempts) <= retry.max_retries + 1
       /\ \A k \in 0..(Len(attempts) - 1) :
            attempts[k + 1].buffer = SubSeq(retry.audio_bytes, 1, n \div (2 ^ k))
       /\ \A k \in 1..(Len(attempts) - 1) :
            /\ attempts[k + 1].buffer # <<>>
            /\ ~attempts[k].outcome.ok
            /\ HasTimeout(attempts[k].outcome.value)
       /\ retry.status = "returned" =>
            /\ attempts # <<>>
            /\ attempts[Len(attempts)].outcome.ok
            /\ retry.value = attempts[Len(attempts)].outcome.value
       /\ retry.status = "raised" =>
            /\ attempts # <<>>
            /\ ~attempts[Len(attempts)].outcome.ok
            /\ retry.value = attempts[Len(attempts)].outcome.value
       /\ (retry.status = "running" /\ attempts # <<>>) => retry.current_buffer # <<>>

\* C28 as stated: transcribe_audio_from_bytes_with_retry terminates; it makes
\* at most max_retries + 1 attempts, retries only after an error whose message
\* contains 'timeout', makes its k-th retry on the first floor(n / 2^k) bytes,
\* never retries with an empty buffer and returns the first successful result.
C28_RetryTerminates ==
    /\ [] RetryDiscipline(LAMBDA message : Contains(TimeoutWord, message))
    /\ <> (retry.status # "running")

\* C28 amended: the same, a retry being made only after an error whose
\* message contains 'timeout' in any letter case.
C28_RetryTerminatesAnyCase ==
    /\ [] RetryDiscipline(LAMBDA message : Contains(TimeoutWord, Lower(message)))
    /\ <> (retry.status # "running")

\* C28 witness: a call that returned at its third attempt, made on a quarter
\* of the buffer, after a timeout whose message has the word capitalised.
C28_Witness ==
    /\ retry.status = "returned"
    /\ Len(retry.attempts) = 3
    /\ Len(retry.attempts[3].buffer) = Len(retry.audio_bytes) \div 4
    /\ \E k \in 1..2 : ~Contains(TimeoutWord, retry.attempts[k].outcome.value)

RECURSIVE Concatenation(_)
\* the chunks of a list, one after the other
Concatenation(chunks) ==
    IF chunks = <<>> THEN <<>> ELSE Head(chunks) \o Concatenation(Tail(chunks))

\* a is the beginning of b
IsPrefix(a, b) == Len(a) <= Len(b) /\ a = SubSeq(b, 1, Len(a))

\* C29: during the collection loop the accumulated esp32_audio_buffer is a
\* prefix of the concatenation of the chunks dequeued so far; its length never
\* exceeds max_buffer_size, which is at most 110% of sample_rate * channels *
\* sample_width * duration; once the buffer has reached the cap no later chunk
\* changes it.
C29_BufferIsCappedPrefix ==
    /\ [] /\ IsPrefix(esp32.esp32_audio_buffer, Concatenation(esp32.dequeued))
          /\ Len(esp32.esp32_audio_buffer) <= esp32.max_buffer_size
          /\ RLe(Num(esp32.max_buffer_size),
                 RMul(Rat(110, 100), RMul(Num(44100 * 2 * 2), esp32.duration)))
    /\ [][Len(esp32.esp32_audio_buffer) = esp32.max_buffer_size =>
            esp32'.esp32_audio_buffer = esp32.esp32_audio_buffer]_vars

\* C29 witness: a buffer at its cap of 5 bytes after three chunks: the second
\* chunk did not fit and was cut, the third was dropped whole.
C29_Witness ==
    /\ Len(esp32.dequeued) = 3
    /\ esp32.max_buffer_size = 5
    /\ Len(esp32.esp32_audio_buffer) = 5
    /\ Len(esp32.dequeued[1]) < 5
    /\ Len(esp32.dequeued[1]) + Len(esp32.dequeued[2]) > 5
    /\ Len(esp32.dequeued[3]) > 0

\* a datagram shorter than 100 bytes whose text starts with STOP
IsStopMessage(data) ==
    /\ Len(data) < 100
    /\ \A i \in 1..Len(data) : data[i] \notin {"0xFF", "0x80"}
    /\ Len(data) >= 4
    /\ SubSeq(data, 1, 4) = <<"S", "T", "O", "P">>

\* C30: in ButtonTriggerAnalyzer.run every received datagram shorter than 100
\* bytes whose text starts with STOP ends the collection loop, the recording
\* collected so far being what is processed, and is not appended to the audio
\* buffer.
C30_StopEndsRecording ==
    /\ [][(button'.received = button.received + 1 /\ IsStopMessage(button'.data)) =>
            /\ button'.at = "processing"
            /\ button'.audio_buffer = button.audio_buffer]_vars
    /\ [][(button.at = "processing" /\ button'.at # "processing"
                /\ button.audio_buffer # <<>>) =>
            button'.processed = Append(button.processed, button.audio_buffer)]_vars
====
